---------------------------- MODULE Spec2Model ----------------------------
(***************************************************************************)
(* Forecast Evidence & Classification Engine.                              *)
(*                                                                         *)
(* Nine components of the engine are modelled, each with its own           *)
(* specification over the shared variable list:                            *)
(*   SpecCite   - dashboard/citation.py  CitationManager and its callers   *)
(*                in dashboard/core.py (Dashboard)                         *)
(*   SpecCache  - data_sources.py        DataSourceManager cache layer     *)
(*   SpecForecasts - data_sources.py     DataSourceManager forecast        *)
(*                fetches through the cache                                *)
(*   SpecSearch - dashboard/search.py    TrustedSourcesSearcher.search     *)
(*   SpecStatus - dashboard/status.py    flag_status                       *)
(*   SpecEngine - prediction_engine.py   PredictionEngine matching and     *)
(*                scoring                                                  *)
(*   SpecParser - dashboard/parser.py    extract_year_value_pairs          *)
(*   SpecLikelihood - prediction_engine.py  PredictionEngine likelihood    *)
(*                estimator                                                *)
(*   SpecThreads - dashboard/citation.py  CitationManager.add called by    *)
(*                threads that share one registry                          *)
(* A specification leaves the variables of the other components at their   *)
(* initial values.                                                         *)
(***************************************************************************)
EXTENDS Integers, Sequences, FiniteSets, TLC

VARIABLES
  citations,   \* CitationManager._citations: insertion-ordered url -> tag
  ret,         \* the last call on the registry / dashboard and what it returned
  firstTag,    \* history: url -> tag returned by the first add(url), <<>> if none
  seen,        \* history: the urls passed to add, in first-seen order
  rendered,    \* history: render() has been called
  cache,       \* DataSourceManager.cache: cache_key -> (data, timestamp)
  now,         \* the wall clock read by datetime.now(), in seconds
  call,        \* the last cache call: its arguments, what it did and returned
  lastSuccess, \* history: cache_key -> time of its last successful fetch
  lastRaised,  \* history: cache_key -> the last call with this key had fetch_func raise
  windowCalls, \* history: cache_key -> fetch_func calls within the TTL of its entry
  pc,             \* where search is: "idle", "loop" (the domain loop), "done", "raised"
  max_results,    \* the argument of the search call under way
  dom,            \* number of the next trusted domain the loop queries
  all_results,    \* search: the local list all_results
  unique_results, \* the list search returned
  queried,        \* history: the domains queried by this call, in order
  lastResp,       \* history: "failure" or "ok", what the last query came to
  failures,       \* history: number of queries of this call that failed
  expected,       \* history: what the domains that did not fail contributed
  slept,          \* history: the last pass of the domain loop slept the politeness delay
  undelayed,      \* history: a query of this call followed the one before it with no delay
  utcYear,        \* datetime.utcnow().year, the calendar year of the wall clock
  flagCall,       \* the last call of flag_status: its arguments and the flag returned
  engineIn,       \* the arguments of the call on the PredictionEngine
  engineOut,      \* the call made on the PredictionEngine and what it returned
  parseIn,        \* the text passed to extract_year_value_pairs
  parseOut,       \* the call made on the extractor, what it returned and the matches
  likeIn,         \* the arguments of the call on the likelihood estimator
  likeOut,        \* the call made on the likelihood estimator and what it returned
  threads,        \* per thread: where its call of add is, its url, its local tag
  lock,           \* the thread that holds the callers' lock, 0 when it is free
  serialized      \* the callers take the lock around every add

citeVars == <<citations, ret, firstTag, seen, rendered>>

cacheVars == <<cache, now, call, lastSuccess, lastRaised, windowCalls>>

searchVars == <<pc, max_results, dom, all_results, unique_results, queried, lastResp,
                failures, expected, slept, undelayed>>

statusVars == <<utcYear, flagCall>>

engineVars == <<engineIn, engineOut>>
parseVars == <<parseIn, parseOut>>
likeVars == <<likeIn, likeOut>>
threadVars == <<threads, lock, serialized>>

vars == <<citeVars, cacheVars, searchVars, statusVars, engineVars, parseVars, likeVars, threadVars>>

---------------------------------------------------------------------------
(* Generic sequence helpers                                                *)

Range(s) == {s[i] : i \in 1..Len(s)}

Min(a, b) == IF a < b THEN a ELSE b

\* Python slice s[:n] for n >= 0
Take(s, n) == SubSeq(s, 1, Min(n, Len(s)))

---------------------------------------------------------------------------
(* Text: a str is a sequence of one-character strings                      *)

Digits == <<"0", "1", "2", "3", "4", "5", "6", "7", "8", "9">>

DigitVal(c) == (CHOOSE i \in 1..10 : Digits[i] = c) - 1

\* str(n) for n >= 0: decimal digits, no leading zeros
RECURSIVE Str(_)
Str(n) == IF n < 10 THEN <<Digits[n + 1]>>
          ELSE Str(n \div 10) \o <<Digits[(n % 10) + 1]>>

\* int(s) for a non-empty string of decimal digits
RECURSIVE ParseInt(_)
ParseInt(s) == IF Len(s) = 1 THEN DigitVal(s[1])
          ELSE 10 * ParseInt(SubSeq(s, 1, Len(s) - 1)) + DigitVal(s[Len(s)])

\* s.split(sep) for a one-character separator: the list of parts
RECURSIVE Split(_, _)
Split(s, sep) ==
  IF \A i \in 1..Len(s) : s[i] # sep THEN <<s>>
  ELSE LET k == CHOOSE i \in 1..Len(s) :
                  s[i] = sep /\ \A j \in 1..(i - 1) : s[j] # sep
       IN <<SubSeq(s, 1, k - 1)>> \o Split(SubSeq(s, k + 1, Len(s)), sep)

\* a str is a sequence of one-character strings
UpperCase == <<"A", "B", "C", "D", "E", "F", "G", "H", "I", "J", "K", "L", "M",
               "N", "O", "P", "Q", "R", "S", "T", "U", "V", "W", "X", "Y", "Z", "U+00C7">>
LowerCase == <<"a", "b", "c", "d", "e", "f", "g", "h", "i", "j", "k", "l", "m",
               "n", "o", "p", "q", "r", "s", "t", "u", "v", "w", "x", "y", "z", "U+00E7">>

\* str.lower()
Lower(text) ==
  [i \in 1..Len(text) |->
     IF \E k \in 1..Len(UpperCase) : UpperCase[k] = text[i]
     THEN LowerCase[CHOOSE k \in 1..Len(UpperCase) : UpperCase[k] = text[i]]
     ELSE text[i]]

---------------------------------------------------------------------------
(* Bounds and inputs of the registry model                                 *)

NumUrls == 2      \* urls passed one at a time, in any order
NumBatch == 8     \* length of the long search-result list handed to the Dashboard

EvidenceLimit == 5   \* results[:5] in evaluate_future_target

Url(i) == "https://src/" \o ToString(i)

BatchUrls == [i \in 1..NumBatch |-> Url(i)]
FreshUrls == {Url(NumBatch + i) : i \in 1..NumUrls}
Urls == Range(BatchUrls) \cup FreshUrls

\* url lists a search may hand to the Dashboard: no result, one result, and
\* the long list
ResultLists == {<<>>} \cup {<<u>> : u \in FreshUrls} \cup {BatchUrls}

NoTag == <<>>

---------------------------------------------------------------------------
(* CitationManager (dashboard/citation.py)                                 *)

\* `url in d` for the insertion-ordered dict d
DictHas(d, url) == \E i \in 1..Len(d) : d[i].url = url

\* d[url]
DictGet(d, url) == d[CHOOSE i \in 1..Len(d) : d[i].url = url].tag

\* d[url] = tag: overwrite in place when the key exists, else append
DictSet(d, url, tag) ==
  IF DictHas(d, url)
  THEN [i \in 1..Len(d) |-> IF d[i].url = url THEN [url |-> url, tag |-> tag] ELSE d[i]]
  ELSE Append(d, [url |-> url, tag |-> tag])

\* f"web:{n}"
FormatTag(n) == <<"w", "e", "b", ":">> \o Str(n)

\* int(tag.split(":")[1]): the sort key of render (Python index 1 = second part)
TagNumber(tag) == ParseInt(Split(tag, ":")[2])

\* mutant of add: the membership test is dropped, every call takes a new number
add_Renumber(d, url) ==
  LET tag == FormatTag(Len(d) + 1)
  IN [cit |-> DictSet(d, url, tag), tag |-> tag]

\* mutant of add: tags numbered from 0 (the + 1 is dropped)
add_ZeroBased(d, url) ==
  IF DictHas(d, url)
  THEN [cit |-> d, tag |-> DictGet(d, url)]
  ELSE LET tag == FormatTag(Len(d))
       IN [cit |-> DictSet(d, url, tag), tag |-> tag]

\* CitationManager.add: the new dict and the returned tag
add(d, url) ==
  IF DictHas(d, url)
  THEN [cit |-> d, tag |-> DictGet(d, url)]
  ELSE LET tag == FormatTag(Len(d) + 1)
       IN [cit |-> DictSet(d, url, tag), tag |-> tag]

\* character order of the characters a tag is made of
CharOrder == <<"0", "1", "2", "3", "4", "5", "6", "7", "8", "9", ":", "b", "e", "w">>
Ord(c) == CHOOSE i \in 1..Len(CharOrder) : CharOrder[i] = c

\* a <= b in the lexicographic order of strings
RECURSIVE LexLeq(_, _)
LexLeq(a, b) ==
  IF a = <<>> THEN TRUE
  ELSE IF b = <<>> THEN FALSE
  ELSE IF Head(a) # Head(b) THEN Ord(Head(a)) < Ord(Head(b))
  ELSE LexLeq(Tail(a), Tail(b))

\* mutant of SortedByKey: the key is the tag text, not its number
InsertLex(s, x) ==
  LET k == Cardinality({i \in 1..Len(s) : LexLeq(s[i].tag, x.tag)})
  IN SubSeq(s, 1, k) \o <<x>> \o SubSeq(s, k + 1, Len(s))

RECURSIVE SortedByKey_Lex(_)
SortedByKey_Lex(items) ==
  IF Len(items) <= 1 THEN items
  ELSE InsertLex(SortedByKey_Lex(SubSeq(items, 1, Len(items) - 1)), items[Len(items)])

\* item x put into the sorted list s behind every item whose key is <= its own
InsertByKey(s, x) ==
  LET k == Cardinality({i \in 1..Len(s) : TagNumber(s[i].tag) <= TagNumber(x.tag)})
  IN SubSeq(s, 1, k) \o <<x>> \o SubSeq(s, k + 1, Len(s))

\* sorted(items, key=...): stable insertion sort, ascending
RECURSIVE SortedByKey(_)
SortedByKey(items) ==
  IF Len(items) <= 1 THEN items
  ELSE InsertByKey(SortedByKey(SubSeq(items, 1, Len(items) - 1)), items[Len(items)])

\* CitationManager.render: list of (tag, url)
render(d) ==
  LET items == SortedByKey(d)
  IN [i \in 1..Len(items) |-> <<items[i].tag, items[i].url>>]

\* CitationManager.inline: f"[{self.add(url)}]"
inline(d, url) ==
  LET r == add(d, url)
  IN [cit |-> r.cit, text |-> <<"[">> \o r.tag \o <<"]">>]

\* `for res in results: tag = self.citations.add(res.url)`:
\* the dict after the loop and the tags in call order
RECURSIVE AddEach(_, _)
AddEach(d, urls) ==
  IF urls = <<>> THEN [cit |-> d, tags |-> <<>>]
  ELSE LET r == add(d, Head(urls))
           rest == AddEach(r.cit, Tail(urls))
       IN [cit |-> rest.cit, tags |-> <<r.tag>> \o rest.tags]

---------------------------------------------------------------------------
(* DataSourceManager cache layer (data_sources.py)                         *)

CacheDuration == 3600     \* self.cache_duration
SecondsPerDay == 86400    \* timedelta.seconds is the remainder below one day

MaxDays == 1              \* the clock runs over days 0 .. MaxDays

\* the instants at which the clock is read
TimePoints ==
  {d * SecondsPerDay + o : d \in 0..MaxDays, o \in {0, CacheDuration - 1, CacheDuration}}

NoTime == -1
NoEntry == [data |-> "absent", timestamp |-> NoTime]
None == "None"
EmptyMap == "{}"
Raise == "raise"

\* what fetch_func may do: return one of two results, or raise
FetchData == {"data1", "data2"}
FetchOutcomes == FetchData \cup {Raise}

TargetYears == {2030}
SectorLists == {<<"energy">>, <<"energy", "economy">>}

\* '-'.join(sectors)
RECURSIVE Join(_)
Join(parts) ==
  IF parts = <<>> THEN ""
  ELSE IF Len(parts) = 1 THEN parts[1]
  ELSE parts[1] \o "-" \o Join(Tail(parts))

\* f"actuals_{target_year}_{'-'.join(sectors)}"
ActualsKey(target_year, sectors) ==
  "actuals_" \o ToString(target_year) \o "_" \o Join(sectors)

CacheKeys == {ActualsKey(y, s) : y \in TargetYears, s \in SectorLists}

ForecastYears == {2020}
SourceLists == {<<"IEA">>, <<"RBI", "IEA">>}
ForecastSectors == {<<"energy">>}

\* f"historical_{forecast_year}_{target_year}_{'-'.join(sectors)}"
HistoricalKey(forecast_year, target_year, sectors) ==
  "historical_" \o ToString(forecast_year) \o "_" \o ToString(target_year) \o "_"
  \o Join(sectors)

\* f"current_{target_year}_{'-'.join(sectors)}"
CurrentKey(target_year, sectors) ==
  "current_" \o ToString(target_year) \o "_" \o Join(sectors)

ForecastKeys ==
  {HistoricalKey(f, y, s) : f \in ForecastYears, y \in TargetYears, s \in ForecastSectors}
  \cup {CurrentKey(y, s) : y \in TargetYears, s \in ForecastSectors}

AllCacheKeys == CacheKeys \cup ForecastKeys

\* what the fetch of the forecasts returns when it does not raise: the
\* result for the sources it is called with
FetchedFrom(sources) == "data from " \o Join(sources)

\* (now - timestamp).seconds: the seconds field of the timedelta, 0 .. 86399
TdSeconds(delta) == delta % SecondsPerDay

\* cache_key in self.cache
CacheHas(c, key) == \E e \in c : e.key = key

\* self.cache[cache_key]
CacheGet(c, key) == CHOOSE e \in c : e.key = key

\* mutant of CacheStore: the old entry of the key is kept beside the new one
CacheStore_Append(c, key, data, timestamp) ==
  c \cup {[key |-> key, data |-> data, timestamp |-> timestamp]}

\* self.cache[cache_key] = (data, now): the key's entry is replaced
CacheStore(c, key, data, timestamp) ==
  {e \in c : e.key # key} \cup {[key |-> key, data |-> data, timestamp |-> timestamp]}

\* mutant of IsFresh: the comparison is turned round
IsFresh_Reversed(entry, t) == TdSeconds(t - entry.timestamp) > CacheDuration

\* (now - timestamp).seconds < self.cache_duration
IsFresh(entry, t) == TdSeconds(t - entry.timestamp) < CacheDuration

\* mutant of get_cached_or_fetch: a fresh entry is not used
get_cached_or_fetch_AlwaysFetch(c, t, key, outcome) ==
  IF outcome = Raise
  THEN [cache |-> c, ret |-> None, invoked |-> TRUE, raised |-> TRUE]
  ELSE [cache |-> CacheStore(c, key, outcome, t), ret |-> outcome,
        invoked |-> TRUE, raised |-> FALSE]

\* DataSourceManager._get_cached_or_fetch with fetch_func behaving as `outcome`:
\* the cache afterwards, the value returned, whether fetch_func was called
\* and whether it raised
get_cached_or_fetch(c, t, key, outcome) ==
  IF CacheHas(c, key) /\ IsFresh(CacheGet(c, key), t)
  THEN [cache |-> c, ret |-> CacheGet(c, key).data, invoked |-> FALSE, raised |-> FALSE]
  ELSE IF outcome = Raise
  THEN [cache |-> c, ret |-> None, invoked |-> TRUE, raised |-> TRUE]
  ELSE [cache |-> CacheStore(c, key, outcome, t), ret |-> outcome,
        invoked |-> TRUE, raised |-> FALSE]

CacheInit ==
  /\ cache = {}
  /\ now = 0
  /\ call = [op |-> "init", key |-> "", at |-> 0, before |-> {}, cacheWas |-> {},
             outcome |-> None,
             ret |-> None, invoked |-> FALSE, raised |-> FALSE, afterRaise |-> FALSE]
  /\ lastSuccess = [k \in AllCacheKeys |-> NoTime]
  /\ lastRaised = [k \in AllCacheKeys |-> FALSE]
  /\ windowCalls = [k \in AllCacheKeys |-> 0]

\* the history kept of one cache call with result r
NoteCall(op, key, outcome, r, returned) ==
  /\ call' = [op |-> op, key |-> key, at |-> now, before |-> {e \in cache : e.key = key},
              cacheWas |-> cache, outcome |-> outcome, ret |-> returned, invoked |-> r.invoked,
              raised |-> r.raised, afterRaise |-> lastRaised[key]]
  /\ lastSuccess' = IF r.invoked /\ ~r.raised
                    THEN [lastSuccess EXCEPT ![key] = now] ELSE lastSuccess
  /\ lastRaised' = [lastRaised EXCEPT ![key] = r.raised]
  /\ windowCalls' =
       IF ~r.invoked THEN windowCalls
       ELSE IF ~r.raised THEN [windowCalls EXCEPT ![key] = 1]
       ELSE IF lastSuccess[key] # NoTime /\ now - lastSuccess[key] < CacheDuration
            THEN [windowCalls EXCEPT ![key] = @ + 1]
       ELSE windowCalls

\* a direct call of _get_cached_or_fetch
GetCachedOrFetch(key, outcome) ==
  LET r == get_cached_or_fetch(cache, now, key, outcome) IN
  /\ cache' = r.cache
  /\ NoteCall("get_cached_or_fetch", key, outcome, r, r.ret)
  /\ UNCHANGED now
  /\ UNCHANGED <<citeVars, searchVars, statusVars, engineVars, parseVars, likeVars, threadVars>>

\* DataSourceManager.fetch_actual_outcomes: `result if result is not None else {}`
FetchActualOutcomes(target_year, sectors, outcome) ==
  LET key == ActualsKey(target_year, sectors)
      r == get_cached_or_fetch(cache, now, key, outcome) IN
  /\ cache' = r.cache
  /\ NoteCall("fetch_actual_outcomes", key, outcome, r,
              IF r.ret # None THEN r.ret ELSE EmptyMap)
  /\ UNCHANGED now
  /\ UNCHANGED <<citeVars, searchVars, statusVars, engineVars, parseVars, likeVars, threadVars>>

\* time passes between calls
Tick(t) ==
  /\ t > now
  /\ now' = t
  /\ UNCHANGED <<cache, call, lastSuccess, lastRaised, windowCalls>>
  /\ UNCHANGED <<citeVars, searchVars, statusVars, engineVars, parseVars, likeVars, threadVars>>

\* the history kept of one call that fetches forecasts: that of NoteCall and
\* the sources of the call
NoteForecastCall(op, key, sources, outcome, r) ==
  /\ call' = [op |-> op, key |-> key, sources |-> sources, at |-> now,
              before |-> {e \in cache : e.key = key},
              cacheWas |-> cache, outcome |-> outcome,
              ret |-> IF r.ret # None THEN r.ret ELSE EmptyMap,
              invoked |-> r.invoked, raised |-> r.raised, afterRaise |-> lastRaised[key]]
  /\ lastSuccess' = IF r.invoked /\ ~r.raised
                    THEN [lastSuccess EXCEPT ![key] = now] ELSE lastSuccess
  /\ lastRaised' = [lastRaised EXCEPT ![key] = r.raised]
  /\ windowCalls' =
       IF ~r.invoked THEN windowCalls
       ELSE IF ~r.raised THEN [windowCalls EXCEPT ![key] = 1]
       ELSE IF lastSuccess[key] # NoTime /\ now - lastSuccess[key] < CacheDuration
            THEN [windowCalls EXCEPT ![key] = @ + 1]
       ELSE windowCalls

\* DataSourceManager.fetch_historical_forecasts; _fetch_historical_forecasts_impl
\* raises or returns the result for its sources
FetchHistoricalForecasts(forecast_year, target_year, sectors, sources, raises) ==
  LET key == HistoricalKey(forecast_year, target_year, sectors)
      outcome == IF raises THEN Raise ELSE FetchedFrom(sources)
      r == get_cached_or_fetch(cache, now, key, outcome) IN
  /\ cache' = r.cache
  /\ NoteForecastCall("fetch_historical_forecasts", key, sources, outcome, r)
  /\ UNCHANGED now
  /\ UNCHANGED <<citeVars, searchVars, statusVars, engineVars, parseVars, likeVars, threadVars>>

\* DataSourceManager.fetch_current_predictions; _fetch_current_predictions_impl
\* raises or returns the result for its sources
FetchCurrentPredictions(target_year, sectors, sources, raises) ==
  LET key == CurrentKey(target_year, sectors)
      outcome == IF raises THEN Raise ELSE FetchedFrom(sources)
      r == get_cached_or_fetch(cache, now, key, outcome) IN
  /\ cache' = r.cache
  /\ NoteForecastCall("fetch_current_predictions", key, sources, outcome, r)
  /\ UNCHANGED now
  /\ UNCHANGED <<citeVars, searchVars, statusVars, engineVars, parseVars, likeVars, threadVars>>

NextForecasts ==
  \/ \E f \in ForecastYears, y \in TargetYears, s \in ForecastSectors, src \in SourceLists,
        raises \in BOOLEAN : FetchHistoricalForecasts(f, y, s, src, raises)
  \/ \E y \in TargetYears, s \in ForecastSectors, src \in SourceLists, raises \in BOOLEAN :
       FetchCurrentPredictions(y, s, src, raises)
  \/ \E t \in TimePoints : Tick(t)

NextCache ==
  \/ \E key \in CacheKeys, outcome \in FetchOutcomes : GetCachedOrFetch(key, outcome)
  \/ \E y \in TargetYears, s \in SectorLists, outcome \in FetchOutcomes :
       FetchActualOutcomes(y, s, outcome)
  \/ \E t \in TimePoints : Tick(t)

---------------------------------------------------------------------------
(* TrustedSourcesSearcher (dashboard/search.py)                            *)

\* TRUSTED_DOMAINS, each name a str
TRUSTED_DOMAINS == <<
  <<"i", "e", "a", ".", "o", "r", "g">>,
  <<"r", "b", "i", ".", "o", "r", "g", ".", "i", "n">>,
  <<"m", "o", "s", "p", "i", ".", "g", "o", "v", ".", "i", "n">>,
  <<"n", "i", "t", "i", ".", "g", "o", "v", ".", "i", "n">>,
  <<"p", "i", "b", ".", "g", "o", "v", ".", "i", "n">>,
  <<"u", "n", ".", "o", "r", "g">>,
  <<"w", "o", "r", "l", "d", "b", "a", "n", "k", ".", "o", "r", "g">>,
  <<"r", "e", "u", "t", "e", "r", "s", ".", "c", "o", "m">>,
  <<"t", "h", "e", "h", "i", "n", "d", "u", ".", "c", "o", "m">>,
  <<"e", "c", "o", "n", "o", "m", "i", "c", "t", "i", "m", "e", "s", ".", "i", "n", "d", "i", "a", "t", "i", "m", "e", "s", ".", "c", "o", "m">>,
  <<"l", "i", "v", "e", "m", "i", "n", "t", ".", "c", "o", "m">>
>>

NumRich == 2        \* the first NumRich domains answer with result lists;
                    \* the others answer with no result or fail
MaxRespLen == 2     \* results in one answer of the external search
MaxSmall == 2       \* max_results ranges over 0 .. MaxSmall and the values
                    \* at which the per-domain cap becomes 2

\* the values of the argument max_results
MaxResultsChoices == (0..MaxSmall) \cup {Len(TRUSTED_DOMAINS)}

\* what one site-restricted query comes to: _ddg_query or _parse_results
\* raised, or the parsed result list
Failure == [ok |-> FALSE, results |-> <<>>]
Answer(parsed) == [ok |-> TRUE, results |-> parsed]

\* `a in b` for two str
IsSubstring(a, b) ==
  \E i \in 0..(Len(b) - Len(a)) : SubSeq(b, i + 1, i + Len(a)) = a

\* re.match(r"https?://([^/]+)/?", url): group 1, or "" when there is no match
DomainOf(url) ==
  IF url.scheme \in {"http", "https"} /\ url.host # <<>> THEN url.host ELSE <<>>

\* one parsed result block: SearchResult(title, url, snippet, domain)
Parsed(title, url) ==
  [title |-> title, url |-> url, snippet |-> "", domain |-> DomainOf(url)]

HttpsUrl(host, path) == [scheme |-> "https", host |-> host, path |-> path]

\* the result blocks the external search may answer with
ResultUniverse ==
  {Parsed("A", HttpsUrl(TRUSTED_DOMAINS[i], "/a")) : i \in 1..NumRich}
  \cup {Parsed("B", HttpsUrl(TRUSTED_DOMAINS[1], "/a")),
        Parsed("C", HttpsUrl(<<"w", "w", "w", ".">> \o TRUSTED_DOMAINS[1], "/b")),
        Parsed("D", HttpsUrl(TRUSTED_DOMAINS[1] \o <<".">> \o TRUSTED_DOMAINS[2], "/x")),
        Parsed("E", HttpsUrl(<<"e", "x", ".", "c", "o", "m">>, "/a")),
        Parsed("G", HttpsUrl(TRUSTED_DOMAINS[1] \o <<".", "e", "x", ".", "c", "o", "m">>, "/g")),
        Parsed("F", [scheme |-> "", host |-> <<>>, path |-> "/l/?uddg"])}

\* what the query of domain number d may come to
Responses(d) ==
  IF d <= NumRich
  THEN {Failure} \cup {Answer(p) : p \in UNION {[1..k -> ResultUniverse] : k \in 0..MaxRespLen}}
  ELSE {Failure, Answer(<<>>)}

\* history: each parsed result is marked with the domain queried and its
\* place in the answer
Marked(d, parsed) ==
  [k \in 1..Len(parsed) |->
     [title |-> parsed[k].title, url |-> parsed[k].url, snippet |-> parsed[k].snippet,
      domain |-> parsed[k].domain, src |-> <<d, k>>]]

\* [r for r in parsed if domain in r.domain]
RECURSIVE Filtered(_, _)
Filtered(domain, parsed) ==
  IF parsed = <<>> THEN <<>>
  ELSE (IF IsSubstring(domain, Head(parsed).domain) THEN <<Head(parsed)>> ELSE <<>>)
       \o Filtered(domain, Tail(parsed))

\* mutant of PerDomainCap: a domain may contribute as many results as the call asks for
PerDomainCap_Whole(maxr) == maxr + 1

\* max_results // len(TRUSTED_DOMAINS) + 1
PerDomainCap(maxr) == (maxr \div Len(TRUSTED_DOMAINS)) + 1

\* filtered[: max_results // len(TRUSTED_DOMAINS) + 1] of the answer of domain d
Kept(d, parsed, maxr) ==
  Take(Filtered(TRUSTED_DOMAINS[d], Marked(d, parsed)), PerDomainCap(maxr))

\* mutant of LoopBody: a failing domain ends the loop and the error leaves search
LoopBody_Abort(all, d, resp, maxr) ==
  IF ~resp.ok
  THEN [all_results |-> all, raised |-> TRUE, slept |-> FALSE]
  ELSE [all_results |-> all \o Kept(d, resp.results, maxr), raised |-> FALSE, slept |-> TRUE]

\* one pass of `for domain in TRUSTED_DOMAINS` for domain number d, the query
\* and parse coming to resp: the list collected so far, whether an error
\* leaves search, and whether the politeness delay was slept
LoopBody(all, d, resp, maxr) ==
  IF ~resp.ok
  THEN [all_results |-> all, raised |-> FALSE, slept |-> FALSE]
  ELSE [all_results |-> all \o Kept(d, resp.results, maxr), raised |-> FALSE, slept |-> TRUE]

\* mutant of Unique: the url is never put into `seen`
RECURSIVE Unique_NoSeen(_, _, _, _)
Unique_NoSeen(all, seenUrls, unique, maxr) ==
  IF all = <<>> THEN unique
  ELSE LET u == Append(unique, Head(all)) IN
       IF Len(u) >= maxr THEN u
       ELSE Unique_NoSeen(Tail(all), seenUrls, u, maxr)

\* the loop `for res in all_results` that removes duplicates by url
RECURSIVE Unique(_, _, _, _)
Unique(all, seenUrls, unique, maxr) ==
  IF all = <<>> THEN unique
  ELSE IF Head(all).url \in seenUrls
       THEN Unique(Tail(all), seenUrls, unique, maxr)
  ELSE LET u == Append(unique, Head(all)) IN
       IF Len(u) >= maxr THEN u
       ELSE Unique(Tail(all), seenUrls \cup {Head(all).url}, u, maxr)

SearchInit ==
  /\ pc = "idle"
  /\ max_results = 0
  /\ dom = 1
  /\ all_results = <<>>
  /\ unique_results = <<>>
  /\ queried = <<>>
  /\ lastResp = "none"
  /\ failures = 0
  /\ expected = <<>>
  /\ slept = FALSE
  /\ undelayed = FALSE

\* search(query, max_results) is called
Search(m) ==
  /\ pc \in {"idle", "done"}
  /\ pc' = "loop"
  /\ max_results' = m
  /\ dom' = 1
  /\ all_results' = <<>>
  /\ unique_results' = <<>>
  /\ queried' = <<>>
  /\ lastResp' = "none"
  /\ failures' = 0
  /\ expected' = <<>>
  /\ slept' = FALSE
  /\ undelayed' = FALSE
  /\ UNCHANGED <<citeVars, cacheVars, statusVars, engineVars, parseVars, likeVars, threadVars>>

\* the query of the next trusted domain and what is done with its answer
QueryDomain(resp) ==
  /\ pc = "loop"
  /\ dom <= Len(TRUSTED_DOMAINS)
  /\ LET r == LoopBody(all_results, dom, resp, max_results) IN
       /\ all_results' = r.all_results
       /\ pc' = IF r.raised THEN "raised" ELSE "loop"
       /\ slept' = r.slept
  /\ undelayed' = (undelayed \/ (queried # <<>> /\ ~slept))
  /\ dom' = dom + 1
  /\ queried' = Append(queried, dom)
  /\ lastResp' = IF resp.ok THEN "ok" ELSE "failure"
  /\ failures' = IF resp.ok THEN failures ELSE failures + 1
  /\ expected' = IF resp.ok THEN expected \o Kept(dom, resp.results, max_results)
                 ELSE expected
  /\ UNCHANGED <<max_results, unique_results>>
  /\ UNCHANGED <<citeVars, cacheVars, statusVars, engineVars, parseVars, likeVars, threadVars>>

\* after the last domain: duplicates are removed and the list is returned
ReturnUnique ==
  /\ pc = "loop"
  /\ dom > Len(TRUSTED_DOMAINS)
  /\ unique_results' = Unique(all_results, {}, <<>>, max_results)
  /\ pc' = "done"
  /\ UNCHANGED <<max_results, dom, all_results, queried, lastResp, failures, expected,
                 slept, undelayed>>
  /\ UNCHANGED <<citeVars, cacheVars, statusVars, engineVars, parseVars, likeVars, threadVars>>

NextSearch ==
  \/ \E m \in MaxResultsChoices : Search(m)
  \/ \E resp \in Responses(dom) : QueryDomain(resp)
  \/ ReturnUnique

---------------------------------------------------------------------------
(* Status classifier (dashboard/status.py)                                 *)

\* an Optional argument: None, or a value
Absent == [given |-> FALSE, val |-> 0]
Some(v) == [given |-> TRUE, val |-> v]

MaxHorizon == 6    \* the farthest target year is 2024 + MaxHorizon

\* the years passed as target_year and as achieved_year
FlagYears == {2, 2024, 2026, 2024 + MaxHorizon}

\* the values passed as current_year; 0 is an int that is false in `or`
GivenYears == {0, 2024, 2025}

\* the calendar years the wall clock goes through
WallYears == {2025, 2026}

\* the values passed as progress_pct, percent
ProgressValues == {0, 39, 40, 60, 61, 90}

StatusFlags == {"EARLY", "ON-TIME", "LATE", "LATE-RISK"}

Abs(x) == IF x < 0 THEN -x ELSE x

\* current_year or datetime.utcnow().year
CurrentYearOr(current_year, utcnow_year) ==
  IF current_year.given /\ current_year.val # 0 THEN current_year.val ELSE utcnow_year

\* mutant of Retrospective: achievement in the target year counts as late
Retrospective_LateOnTarget(target_year, achieved_year) ==
  IF achieved_year < target_year THEN "EARLY" ELSE "LATE"

\* the branch `if achieved_year is not None`
Retrospective(target_year, achieved_year) ==
  IF achieved_year < target_year THEN "EARLY"
  ELSE IF achieved_year = target_year THEN "ON-TIME"
  ELSE "LATE"

\* total_span = target_year - (current_year - (years_left)), at least 1
TotalSpan(target_year, current_year, years_left) ==
  LET total_span == target_year - (current_year - years_left) IN
  IF total_span <= 0 THEN 1 ELSE total_span

\* expected_progress = (total_span - years_left) / total_span * 100, kept as
\* the fraction num / den with den > 0
ExpectedProgress(total_span, years_left) ==
  [num |-> (total_span - years_left) * 100, den |-> total_span]

\* the branch `if progress_pct is not None`: the comparisons with
\* expected_progress, both sides multiplied by its denominator
ByProgress(progress_pct, expected_progress) ==
  LET p == progress_pct * expected_progress.den
      e == expected_progress.num
      ten == 10 * expected_progress.den IN
  IF p >= e + ten THEN "EARLY"
  ELSE IF Abs(p - e) <= ten THEN "ON-TIME"
  ELSE "LATE-RISK"

\* no progress data: ON-TIME for targets within 2 years, else LATE-RISK
WithoutProgress(years_left) ==
  IF years_left <= 2 THEN "ON-TIME" ELSE "LATE-RISK"

\* flag_status(target_year, current_year, progress_pct, achieved_year), called
\* when the calendar year of the wall clock is utcnow_year
flag_status(target_year, current_year, progress_pct, achieved_year, utcnow_year) ==
  LET cur == CurrentYearOr(current_year, utcnow_year)
      years_left == target_year - cur IN
  IF achieved_year.given THEN Retrospective(target_year, achieved_year.val)
  ELSE IF years_left <= 0 THEN "LATE"
  ELSE IF progress_pct.given
       THEN ByProgress(progress_pct.val,
                       ExpectedProgress(TotalSpan(target_year, cur, years_left), years_left))
  ELSE WithoutProgress(years_left)

Optional(S) == {Absent} \cup {Some(v) : v \in S}

StatusInit ==
  /\ utcYear = CHOOSE y \in WallYears : \A z \in WallYears : y <= z
  /\ flagCall = [op |-> "init", target_year |-> 0, current_year |-> Absent,
                 progress_pct |-> Absent, achieved_year |-> Absent,
                 at |-> 0, flag |-> "none"]

\* one call of flag_status
FlagStatus(target_year, current_year, progress_pct, achieved_year) ==
  /\ flagCall' = [op |-> "flag_status", target_year |-> target_year,
                  current_year |-> current_year, progress_pct |-> progress_pct,
                  achieved_year |-> achieved_year, at |-> utcYear,
                  flag |-> flag_status(target_year, current_year, progress_pct,
                                       achieved_year, utcYear)]
  /\ UNCHANGED utcYear
  /\ UNCHANGED <<citeVars, cacheVars, searchVars, engineVars, parseVars, likeVars, threadVars>>

\* the wall clock passes into another calendar year
NewYear(y) ==
  /\ y > utcYear
  /\ utcYear' = y
  /\ UNCHANGED flagCall
  /\ UNCHANGED <<citeVars, cacheVars, searchVars, engineVars, parseVars, likeVars, threadVars>>

\* the forecast texts and the target years of the calls of
\* _evaluate_past_forecast
ForecastTexts == {
  <<"A", "c", "h", "i", "e", "v", "e", "d", " ", "i", "n", " ", "2", "0", "1", "8">>,
  <<"t", "a", "r", "g", "e", "t", " ", "2", "0", "3", "0", " ", "r", "e", "a", "c", "h", "e", "d", " ", "i", "n", " ", "2", "0", "1", "9">>,
  <<"n", "o", " ", "y", "e", "a", "r", " ", "g", "i", "v", "e", "n">>,
  <<"G", "D", "P", " ", "o", "f", " ", "2", "0", "2", "6", " ", "r", "e", "v", "i", "s", "e", "d">>,
  <<"r", "e", "a", "c", "h", "e", "d", " ", "b", "y", " ", "2", "0", "2", "0", ",", " ", "n", "o", "t", " ", "2", "0", "1", "9">>
}
PastTargets == {2019, 2026, 2030}

\* re.search(r"(19|20)\d{2}", lowered): the place of the first match, 0
\* without one
FirstYearPlace(lowered) ==
  LET matches(i) == /\ i + 3 <= Len(lowered)
                    /\ SubSeq(lowered, i, i + 1) \in {<<"1", "9">>, <<"2", "0">>}
                    /\ lowered[i + 2] \in Range(Digits)
                    /\ lowered[i + 3] \in Range(Digits)
  IN IF \E i \in 1..Len(lowered) : matches(i)
     THEN CHOOSE i \in 1..Len(lowered) : matches(i) /\ \A j \in 1..(i - 1) : ~matches(j)
     ELSE 0

\* achieved_year of _evaluate_past_forecast: the first match when it is a
\* year of 1900 .. datetime.utcnow().year, else None
AchievedYear(text, utcnow_year) ==
  LET lowered == Lower(text)
      place == FirstYearPlace(lowered)
      yr == ParseInt(SubSeq(lowered, place, place + 3)) IN
  IF place # 0 /\ 1900 <= yr /\ yr <= utcnow_year THEN Some(yr) ELSE Absent

\* Dashboard._evaluate_past_forecast
_evaluate_past_forecast(text, target_year, utcnow_year) ==
  flag_status(target_year, Absent, Absent, AchievedYear(text, utcnow_year), utcnow_year)

\* one call of Dashboard._evaluate_past_forecast
EvaluatePastForecast(text, target_year) ==
  /\ flagCall' = [op |-> "_evaluate_past_forecast", text |-> text,
                  target_year |-> target_year, current_year |-> Absent,
                  progress_pct |-> Absent,
                  achieved_year |-> AchievedYear(text, utcYear), at |-> utcYear,
                  flag |-> _evaluate_past_forecast(text, target_year, utcYear)]
  /\ UNCHANGED utcYear
  /\ UNCHANGED <<citeVars, cacheVars, searchVars, engineVars, parseVars, likeVars, threadVars>>

NextStatus ==
  \/ \E t \in FlagYears, c \in Optional(GivenYears), p \in Optional(ProgressValues),
        a \in Optional(FlagYears) : FlagStatus(t, c, p, a)
  \/ \E y \in WallYears : NewYear(y)
  \/ \E text \in ForecastTexts, t \in PastTargets : EvaluatePastForecast(text, t)

---------------------------------------------------------------------------
(* PredictionEngine (prediction_engine.py): matching and scoring           *)

\* str.split(): the runs of characters between white space, none of them empty
RECURSIVE SplitWs(_)
SplitWs(text) ==
  IF text = <<>> THEN <<>>
  ELSE IF Head(text) = " " THEN SplitWs(Tail(text))
  ELSE LET n == IF \E i \in 1..Len(text) : text[i] = " "
                THEN (CHOOSE i \in 1..Len(text) :
                        text[i] = " " /\ \A j \in 1..(i - 1) : text[j] # " ") - 1
                ELSE Len(text)
       IN <<SubSeq(text, 1, n)>> \o SplitWs(SubSeq(text, n + 1, Len(text)))

\* a float that is the quotient of two ints, kept as num / den with den > 0
Frac(n, d) == [num |-> n, den |-> d]
FracGt(a, b) == a.num * b.den > b.num * a.den
FracLeq(a, b) == a.num * b.den <= b.num * a.den
FracEq(a, b) == a.num * b.den = b.num * a.den

\* len(intersection) / len(union) of two word sets, 0.0 when one is empty
WordSimilarity(words1, words2) ==
  IF words1 = {} \/ words2 = {} THEN Frac(0, 1)
  ELSE Frac(Cardinality(words1 \cap words2), Cardinality(words1 \cup words2))

\* _calculate_metric_similarity: the similarity of the word sets of the metrics
_calculate_metric_similarity(metric1, metric2) ==
  WordSimilarity(Range(SplitWs(Lower(metric1))), Range(SplitWs(Lower(metric2))))

\* mutant of AboveThreshold: a similarity of 0.5 is enough
AboveThreshold_Inclusive(similarity) == FracLeq(Frac(1, 2), similarity)

\* similarity > 0.5, the minimum threshold
AboveThreshold(similarity) == FracGt(similarity, Frac(1, 2))

\* the loop `for actual in actuals` from actual number k on: the number of
\* best_match in actuals, 0 for None
RECURSIVE BestMatch(_, _, _, _, _)
RECURSIVE BestMatchStep(_, _, _, _, _, _)
\* the body of the loop for the actual number k of the given similarity
BestMatchStep(forecast_metric, actuals, k, best_match, best_score, similarity) ==
  IF FracGt(similarity, best_score) /\ AboveThreshold(similarity)
  THEN BestMatch(forecast_metric, actuals, k + 1, k, similarity)
  ELSE BestMatch(forecast_metric, actuals, k + 1, best_match, best_score)

BestMatch(forecast_metric, actuals, k, best_match, best_score) ==
  IF k > Len(actuals) THEN best_match
  ELSE BestMatchStep(forecast_metric, actuals, k, best_match, best_score,
                     _calculate_metric_similarity(forecast_metric,
                                                  Lower(actuals[k].metric)))

\* a matched pair, with the places of its forecast and its actual as history
Pair(forecasts, i, actuals, k) ==
  [forecast |-> forecasts[i], actual |-> actuals[k], fidx |-> i, aidx |-> k]

\* mutant of MatchesOf: a pair for every actual above the threshold
MatchesOf_EveryActual(forecasts, i, actuals) ==
  LET RECURSIVE From(_)
      From(k) ==
        IF k > Len(actuals) THEN <<>>
        ELSE (IF AboveThreshold(_calculate_metric_similarity(
                    Lower(forecasts[i].metric), Lower(actuals[k].metric)))
              THEN <<Pair(forecasts, i, actuals, k)>> ELSE <<>>) \o From(k + 1)
  IN From(1)

\* matches.append((forecast, best_match)) unless best_match is None (0)
PairIfAny(forecasts, i, actuals, best_match) ==
  IF best_match # 0 THEN <<Pair(forecasts, i, actuals, best_match)>> ELSE <<>>

\* one pass of `for forecast in forecasts`: what it appends to matches
MatchesOf(forecasts, i, actuals) ==
  PairIfAny(forecasts, i, actuals,
            BestMatch(Lower(forecasts[i].metric), actuals, 1, 0, Frac(0, 1)))

\* _match_forecasts_with_actuals
_match_forecasts_with_actuals(forecasts, actuals) ==
  LET RECURSIVE From(_)
      From(i) == IF i > Len(forecasts) THEN <<>>
                 ELSE MatchesOf(forecasts, i, actuals) \o From(i + 1)
  IN From(1)

\* self.tolerance_thresholds['moderate']
Tolerance == Frac(15, 100)

\* re.sub(r'[%$₹,]', '', text)
RECURSIVE RemoveSymbols(_)
RemoveSymbols(text) ==
  IF text = <<>> THEN <<>>
  ELSE (IF Head(text) \in {"%", "$", "₹", ","} THEN <<>> ELSE <<Head(text)>>)
       \o RemoveSymbols(Tail(text))

IsDigit(c) == c \in Range(Digits)

\* the end of the run of digits of text that starts at place i (i - 1 when
\* there is no digit at place i)
RECURSIVE DigitRunEnd(_, _)
DigitRunEnd(text, i) ==
  IF i <= Len(text) /\ IsDigit(text[i]) THEN DigitRunEnd(text, i + 1) ELSE i - 1

\* a float as num / den * 10^exp, or None
NoNumber == [ok |-> FALSE, num |-> 0, den |-> 1, exp |-> 0]
Number(n, d, e) == [ok |-> TRUE, num |-> n, den |-> d, exp |-> e]

RECURSIVE Pow10(_)
Pow10(e) == IF e = 0 THEN 1 ELSE 10 * Pow10(e - 1)

\* the place of the first digit of a text that has one
FirstDigitPlace(clean_text) ==
  CHOOSE i \in 1..Len(clean_text) :
    IsDigit(clean_text[i]) /\ \A j \in 1..(i - 1) : ~IsDigit(clean_text[j])

\* the float of digits and the digits after the "."
NumberOfParts(whole, frac) == Number(ParseInt(whole \o frac), Pow10(Len(frac)), 0)

\* \.?\d* after the run of digits that ends at place b: the digits after
\* the "."
FractionAfter(clean_text, b) ==
  IF b + 1 <= Len(clean_text) /\ clean_text[b + 1] = "."
  THEN SubSeq(clean_text, b + 2, DigitRunEnd(clean_text, b + 2)) ELSE <<>>

\* the float of the match of \d+\.?\d* whose digits are at places a..b
NumberAt(clean_text, a, b) ==
  NumberOfParts(SubSeq(clean_text, a, b), FractionAfter(clean_text, b))

\* float(re.findall(r'\d+\.?\d*', clean_text)[0]), or None without a match
FirstNumber(clean_text) ==
  IF \A i \in 1..Len(clean_text) : ~IsDigit(clean_text[i]) THEN NoNumber
  ELSE NumberAt(clean_text, FirstDigitPlace(clean_text),
                DigitRunEnd(clean_text, FirstDigitPlace(clean_text)))

\* the power of ten of the first unit word found in text_lower
UnitExp(text_lower) ==
  LET has(w) == IsSubstring(w, text_lower) IN
  IF has(<<"c", "r", "o", "r", "e">>) \/ has(<<"c", "r">>) THEN 7
  ELSE IF has(<<"l", "a", "k", "h">>) THEN 5
  ELSE IF has(<<"t", "h", "o", "u", "s", "a", "n", "d">>) \/ has(<<"k">>) THEN 3
  ELSE IF has(<<"m", "i", "l", "l", "i", "o", "n">>) \/ has(<<"m">>) THEN 6
  ELSE IF has(<<"b", "i", "l", "l", "i", "o", "n">>) \/ has(<<"b">>) THEN 9
  ELSE IF has(<<"t", "r", "i", "l", "l", "i", "o", "n">>) \/ has(<<"t">>) THEN 12
  ELSE 0

\* value * multiplier of the first unit word, None when there is no number
TimesUnit(value, exp) ==
  IF ~value.ok THEN NoNumber ELSE Number(value.num, value.den, exp)

\* _extract_numeric_value
_extract_numeric_value(text) ==
  IF text = <<>> THEN NoNumber
  ELSE TimesUnit(FirstNumber(RemoveSymbols(text)), UnitExp(Lower(text)))

\* two floats over one power of ten: the fractions to compare
Aligned(x, y) ==
  LET e == Min(x.exp, y.exp) IN
  [x |-> Frac(x.num * Pow10(x.exp - e), x.den), y |-> Frac(y.num * Pow10(y.exp - e), y.den)]

\* abs(actual - predicted) / predicted of two fractions, 1.0 or 0.0 when
\* predicted is 0
DiffOf(p, a) ==
  IF p.num # 0
  THEN Frac(Abs(a.num * p.den - p.num * a.den), a.den * p.num)
  ELSE IF a.num # 0 THEN Frac(1, 1) ELSE Frac(0, 1)

\* diff_percent of two floats that are not negative
DiffPercent(predicted_num, actual_num) ==
  DiffOf(Aligned(predicted_num, actual_num).x, Aligned(predicted_num, actual_num).y)

ActualAbove(predicted_num, actual_num) ==
  FracGt(Aligned(predicted_num, actual_num).y, Aligned(predicted_num, actual_num).x)

\* 1.0 - diff_percent, and max(0.0, 1.0 - diff_percent)
OneMinus(d) == Frac(d.den - d.num, d.den)
MaxZero(x) == IF x.num < 0 THEN Frac(0, 1) ELSE x

\* mutant of Classify: the tolerance is exclusive
Classify_Strict(diff_percent, actual_above) ==
  IF ~FracLeq(Tolerance, diff_percent)
  THEN [status |-> "ON-TIME", accuracy_score |-> OneMinus(diff_percent),
        analysis |-> "accurate within tolerance"]
  ELSE IF actual_above
  THEN [status |-> "EARLY", accuracy_score |-> MaxZero(OneMinus(diff_percent)),
        analysis |-> "exceeded prediction"]
  ELSE [status |-> "LATE", accuracy_score |-> MaxZero(OneMinus(diff_percent)),
        analysis |-> "fell short of prediction"]

\* classify based on accuracy: status, accuracy_score and the sentence of
\* the analysis
Classify(diff_percent, actual_above) ==
  IF FracLeq(diff_percent, Tolerance)
  THEN [status |-> "ON-TIME", accuracy_score |-> OneMinus(diff_percent),
        analysis |-> "accurate within tolerance"]
  ELSE IF actual_above
  THEN [status |-> "EARLY", accuracy_score |-> MaxZero(OneMinus(diff_percent)),
        analysis |-> "exceeded prediction"]
  ELSE [status |-> "LATE", accuracy_score |-> MaxZero(OneMinus(diff_percent)),
        analysis |-> "fell short of prediction"]

\* _compare_text_values, polarity being TextBlob(text).sentiment.polarity in
\* hundredths
_compare_text_values(predicted, actual, polarity) ==
  IF predicted = <<>> \/ actual = <<>> THEN "UNKNOWN"
  ELSE LET pred_sentiment == polarity[predicted]
           actual_sentiment == polarity[actual] IN
       IF Abs(pred_sentiment - actual_sentiment) < 20 THEN "ON-TIME"
       ELSE IF actual_sentiment > pred_sentiment THEN "EARLY"
       ELSE "LATE"

\* the numeric comparison when both values have a number, else the
\* comparison of the texts
Assessment(forecast, actual, polarity, predicted_num, actual_num) ==
  IF predicted_num.ok /\ actual_num.ok
  THEN Classify(DiffPercent(predicted_num, actual_num),
                ActualAbove(predicted_num, actual_num))
  ELSE [status |-> _compare_text_values(forecast.predicted_value,
                                        actual.actual_value, polarity),
        accuracy_score |-> Frac(0, 1),
        analysis |-> "qualitative assessment"]

\* the comparison that is returned
Comparison(forecast, actual, c) ==
  [metric |-> forecast.metric, predicted_value |-> forecast.predicted_value,
   actual_value |-> actual.actual_value, source |-> forecast.source,
   status |-> c.status, accuracy_score |-> c.accuracy_score, analysis |-> c.analysis]

\* _compare_single_forecast
_compare_single_forecast(forecast, actual, sector, polarity) ==
  Comparison(forecast, actual,
             Assessment(forecast, actual, polarity,
                        _extract_numeric_value(forecast.predicted_value),
                        _extract_numeric_value(actual.actual_value)))

\* the sum of two fractions
AddFrac(x, y) == Frac(x.num * y.den + y.num * x.den, x.den * y.den)

\* sum(f.get('accuracy_score', 0.0) for f in forecasts)
RECURSIVE SumScores(_)
SumScores(comparisons) ==
  IF comparisons = <<>> THEN Frac(0, 1)
  ELSE AddFrac(Head(comparisons).accuracy_score, SumScores(Tail(comparisons)))

\* total_score / len(forecasts)
OverCount(total_score, n) == Frac(total_score.num, total_score.den * n)

\* _calculate_sector_accuracy
_calculate_sector_accuracy(comparisons) ==
  IF comparisons = <<>> THEN Frac(0, 1)
  ELSE OverCount(SumScores(comparisons), Len(comparisons))

\* the loop `for forecast, actual in matched_pairs` on the entry of the sector
RECURSIVE ComparePairs(_, _, _, _)
ComparePairs(pairs, entry, sector, polarity) ==
  IF pairs = <<>> THEN entry
  ELSE ComparePairs(Tail(pairs),
                    [entry EXCEPT !.forecasts =
                                    Append(@, _compare_single_forecast(
                                                Head(pairs).forecast, Head(pairs).actual,
                                                sector, polarity)),
                                  !.total_comparisons = @ + 1],
                    sector, polarity)

\* the entry of the sector after the loop over the matched pairs
EntryOf(matched_pairs, sector, polarity) ==
  ComparePairs(matched_pairs,
               [present |-> TRUE, forecasts |-> <<>>, accuracy_score |-> Frac(0, 1),
                total_comparisons |-> 0, matched_pairs |-> matched_pairs],
               sector, polarity)

\* results[sector]['accuracy_score'] = self._calculate_sector_accuracy(...)
WithAccuracy(entry) ==
  [entry EXCEPT !.accuracy_score = _calculate_sector_accuracy(entry.forecasts)]

\* compare_forecasts_vs_actuals for forecasts of one sector: the entry of
\* the sector in results, and as history the matched pairs it went through;
\* no entry when the sector is not in actuals
compare_forecasts_vs_actuals(forecast_data, in_actuals, actual_data, sector, polarity) ==
  IF ~in_actuals
  THEN [present |-> FALSE, forecasts |-> <<>>, accuracy_score |-> Frac(0, 1),
        total_comparisons |-> 0, matched_pairs |-> <<>>]
  ELSE WithAccuracy(EntryOf(_match_forecasts_with_actuals(forecast_data, actual_data),
                            sector, polarity))

MaxForecasts == 2   \* forecasts of the sector in one call
MaxActuals == 2     \* actuals of the sector in one call

\* the forecast entries and the actual entries of the calls
ForecastEntries ==
  {[metric |-> <<"G", "D", "P", " ", "G", "r", "o", "w", "t", "h", " ", "R", "a", "t", "e">>, predicted_value |-> <<"1", "0", "0", " ", "G", "W">>, source |-> "IEA"],
   [metric |-> <<"G", "D", "P", " ", "G", "r", "o", "w", "t", "h">>, predicted_value |-> <<"1", "0", "0", " ", "G", "W">>, source |-> "IEA"],
   [metric |-> <<>>, predicted_value |-> <<"0">>, source |-> "IEA"],
   [metric |-> <<"g", "d", "p", " ", " ", "g", "r", "o", "w", "t", "h">>, predicted_value |-> <<>>, source |-> "IEA"]}

ActualEntries ==
  {[metric |-> <<"G", "D", "P", " ", "G", "r", "o", "w", "t", "h">>, actual_value |-> <<"8", "6", " ", "G", "W">>],
   [metric |-> <<"L", "i", "t", "e", "r", "a", "c", "y", " ", "R", "a", "t", "e">>, actual_value |-> <<"1", "1", "6", " ", "G", "W">>],
   [metric |-> <<"G", "D", "P">>, actual_value |-> <<"1", "1", "5", " ", "G", "W">>],
   [metric |-> <<"g", "r", "o", "w", "t", "h", " ", "r", "a", "t", "e">>, actual_value |-> <<"0">>],
   [metric |-> <<"G", "D", "P", " ", "G", "r", "o", "w", "t", "h", " ", "R", "a", "t", "e">>, actual_value |-> <<"8", "4", " ", "G", "W">>]}

\* the value texts of the calls of _compare_single_forecast
PredictedValues ==
  {<<"1", "0", "0", " ", "G", "W">>,
   <<"0">>,
   <<>>,
   <<"h", "i", "g", "h">>,
   <<"1", "0", "0", " ", "k", "W">>}

ActualValues ==
  {<<"8", "6", " ", "G", "W">>,
   <<"8", "5", " ", "G", "W">>,
   <<"1", "1", "5", " ", "G", "W">>,
   <<"1", "1", "6", " ", "G", "W">>,
   <<"8", "4", " ", "G", "W">>,
   <<"3", "0", "0", " ", "G", "W">>,
   <<"0">>,
   <<"5", " ", "%">>,
   <<"8", "6", " ", "k", "W">>,
   <<"h", "i", "g", "h">>,
   <<>>}

ValueTexts ==
  PredictedValues \cup ActualValues
  \cup {f.predicted_value : f \in ForecastEntries} \cup {a.actual_value : a \in ActualEntries}

\* TextBlob(text).sentiment.polarity in hundredths: 0 for every text but
\* "high", whose polarity is one of three values
PolarityTables ==
  {[t \in ValueTexts |-> IF t = <<"h", "i", "g", "h">> THEN h ELSE 0] : h \in {-50, 0, 50}}

SeqsUpTo(S, n) == UNION {[1..k -> S] : k \in 0..n}

\* the arguments of one call: the lists of one sector, or one pair
EngineInputs ==
  {[kind |-> "sector", forecasts |-> f, in_actuals |-> TRUE, actuals |-> a] :
     f \in SeqsUpTo(ForecastEntries, MaxForecasts), a \in SeqsUpTo(ActualEntries, MaxActuals)}
  \cup {[kind |-> "sector", forecasts |-> f, in_actuals |-> FALSE, actuals |-> <<>>] :
     f \in SeqsUpTo(ForecastEntries, MaxForecasts)}
  \cup {[kind |-> "pair",
         forecasts |-> <<[metric |-> <<"G", "D", "P", " ", "G", "r", "o", "w", "t", "h">>, predicted_value |-> p, source |-> "IEA"]>>,
         in_actuals |-> TRUE,
         actuals |-> <<[metric |-> <<"G", "D", "P", " ", "G", "r", "o", "w", "t", "h">>, actual_value |-> a]>>] :
     p \in PredictedValues, a \in ActualValues}

NoInput == [kind |-> "none", forecasts |-> <<>>, in_actuals |-> FALSE, actuals |-> <<>>]

EngineInit ==
  /\ engineIn = NoInput
  /\ engineOut = [op |-> "none", val |-> <<>>]

\* the engine before a call whose arguments are chosen
EngineCallInit ==
  /\ engineIn \in EngineInputs
  /\ engineOut = [op |-> "none", val |-> <<>>]

\* one call of _match_forecasts_with_actuals
MatchForecastsWithActuals ==
  /\ engineIn.kind = "sector"
  /\ engineIn.in_actuals
  /\ engineOut.op = "none"
  /\ engineOut' = [op |-> "_match_forecasts_with_actuals",
                   val |-> _match_forecasts_with_actuals(engineIn.forecasts, engineIn.actuals)]
  /\ UNCHANGED engineIn
  /\ UNCHANGED <<citeVars, cacheVars, searchVars, statusVars, parseVars, likeVars, threadVars>>

\* one call of compare_forecasts_vs_actuals
CompareForecastsVsActuals(polarity) ==
  /\ engineIn.kind = "sector"
  /\ engineOut.op = "none"
  /\ engineOut' = [op |-> "compare_forecasts_vs_actuals",
                   val |-> compare_forecasts_vs_actuals(engineIn.forecasts, engineIn.in_actuals,
                                                        engineIn.actuals, "Energy", polarity)]
  /\ UNCHANGED engineIn
  /\ UNCHANGED <<citeVars, cacheVars, searchVars, statusVars, parseVars, likeVars, threadVars>>

\* one call of _compare_single_forecast
CompareSingleForecast(polarity) ==
  /\ engineIn.kind = "pair"
  /\ engineOut.op = "none"
  /\ engineOut' = [op |-> "_compare_single_forecast",
                   val |-> _compare_single_forecast(engineIn.forecasts[1], engineIn.actuals[1],
                                                    "Energy", polarity)]
  /\ UNCHANGED engineIn
  /\ UNCHANGED <<citeVars, cacheVars, searchVars, statusVars, parseVars, likeVars, threadVars>>

NextEngine ==
  \/ MatchForecastsWithActuals
  \/ \E polarity \in PolarityTables : CompareForecastsVsActuals(polarity)
  \/ \E polarity \in PolarityTables : CompareSingleForecast(polarity)

---------------------------------------------------------------------------
(* PredictionEngine (prediction_engine.py): likelihood of future targets.  *)
(* A score or a confidence is a whole number of thousandths.               *)

Sectors ==
  {"Economy", "Energy", "Infrastructure", "Technology", "Agriculture", "Education", "Healthcare", "Environment", "Social Development"}

\* self.sector_patterns.get(sector, {}): the weights in thousandths
SectorPatterns(sector) ==
  CASE sector = "Economy" ->
       [known |-> TRUE,
        early_indicators |-> <<<<"d", "i", "g", "i", "t", "a", "l">>, <<"s", "e", "r", "v", "i", "c", "e", "s">>, <<"I", "T">>, <<"s", "t", "a", "r", "t", "u", "p">>>>,
        late_indicators |-> <<<<"m", "a", "n", "u", "f", "a", "c", "t", "u", "r", "i", "n", "g">>, <<"i", "n", "f", "r", "a", "s", "t", "r", "u", "c", "t", "u", "r", "e">>, <<"h", "e", "a", "v", "y", " ", "i", "n", "d", "u", "s", "t", "r", "y">>>>,
        accuracy_weight |-> 700]
  [] sector = "Energy" ->
       [known |-> TRUE,
        early_indicators |-> <<<<"s", "o", "l", "a", "r">>, <<"w", "i", "n", "d">>, <<"r", "e", "n", "e", "w", "a", "b", "l", "e">>, <<"d", "i", "g", "i", "t", "a", "l">>>>,
        late_indicators |-> <<<<"c", "o", "a", "l">>, <<"n", "u", "c", "l", "e", "a", "r">>, <<"g", "r", "i", "d">>, <<"t", "r", "a", "n", "s", "m", "i", "s", "s", "i", "o", "n">>>>,
        accuracy_weight |-> 600]
  [] sector = "Infrastructure" ->
       [known |-> TRUE,
        early_indicators |-> <<<<"m", "e", "t", "r", "o">>, <<"a", "i", "r", "p", "o", "r", "t", "s">>, <<"d", "i", "g", "i", "t", "a", "l">>>>,
        late_indicators |-> <<<<"r", "a", "i", "l", "w", "a", "y">>, <<"h", "i", "g", "h", "w", "a", "y">>, <<"p", "o", "r", "t", "s">>, <<"l", "a", "n", "d", " ", "a", "c", "q", "u", "i", "s", "i", "t", "i", "o", "n">>>>,
        accuracy_weight |-> 500]
  [] sector = "Technology" ->
       [known |-> TRUE,
        early_indicators |-> <<<<"m", "o", "b", "i", "l", "e">>, <<"i", "n", "t", "e", "r", "n", "e", "t">>, <<"d", "i", "g", "i", "t", "a", "l">>, <<"s", "t", "a", "r", "t", "u", "p">>>>,
        late_indicators |-> <<<<"m", "a", "n", "u", "f", "a", "c", "t", "u", "r", "i", "n", "g">>, <<"h", "a", "r", "d", "w", "a", "r", "e">>, <<"r", "e", "g", "u", "l", "a", "t", "i", "o", "n">>>>,
        accuracy_weight |-> 800]
  [] sector = "Agriculture" ->
       [known |-> TRUE,
        early_indicators |-> <<<<"i", "r", "r", "i", "g", "a", "t", "i", "o", "n">>, <<"s", "e", "e", "d", "s">>, <<"t", "e", "c", "h", "n", "o", "l", "o", "g", "y">>>>,
        late_indicators |-> <<<<"l", "a", "n", "d", " ", "r", "e", "f", "o", "r", "m">>, <<"s", "u", "b", "s", "i", "d", "i", "e", "s">>, <<"w", "e", "a", "t", "h", "e", "r">>>>,
        accuracy_weight |-> 600]
  [] sector = "Education" ->
       [known |-> TRUE,
        early_indicators |-> <<<<"d", "i", "g", "i", "t", "a", "l">>, <<"o", "n", "l", "i", "n", "e">>, <<"p", "r", "i", "v", "a", "t", "e">>>>,
        late_indicators |-> <<<<"g", "o", "v", "e", "r", "n", "m", "e", "n", "t">>, <<"i", "n", "f", "r", "a", "s", "t", "r", "u", "c", "t", "u", "r", "e">>, <<"t", "e", "a", "c", "h", "e", "r", "s">>>>,
        accuracy_weight |-> 700]
  [] sector = "Healthcare" ->
       [known |-> TRUE,
        early_indicators |-> <<<<"d", "i", "g", "i", "t", "a", "l">>, <<"p", "r", "i", "v", "a", "t", "e">>, <<"p", "h", "a", "r", "m", "a">>>>,
        late_indicators |-> <<<<"g", "o", "v", "e", "r", "n", "m", "e", "n", "t">>, <<"i", "n", "f", "r", "a", "s", "t", "r", "u", "c", "t", "u", "r", "e">>, <<"r", "u", "r", "a", "l">>>>,
        accuracy_weight |-> 600]
  [] sector = "Environment" ->
       [known |-> TRUE,
        early_indicators |-> <<<<"s", "o", "l", "a", "r">>, <<"e", "l", "e", "c", "t", "r", "i", "c">>, <<"p", "r", "i", "v", "a", "t", "e">>>>,
        late_indicators |-> <<<<"c", "o", "a", "l">>, <<"g", "o", "v", "e", "r", "n", "m", "e", "n", "t">>, <<"i", "n", "d", "u", "s", "t", "r", "i", "a", "l">>>>,
        accuracy_weight |-> 500]
  [] sector = "Social Development" ->
       [known |-> TRUE,
        early_indicators |-> <<<<"d", "i", "g", "i", "t", "a", "l">>, <<"u", "r", "b", "a", "n">>, <<"p", "r", "i", "v", "a", "t", "e">>>>,
        late_indicators |-> <<<<"r", "u", "r", "a", "l">>, <<"g", "o", "v", "e", "r", "n", "m", "e", "n", "t">>, <<"i", "n", "f", "r", "a", "s", "t", "r", "u", "c", "t", "u", "r", "e">>>>,
        accuracy_weight |-> 600]
    [] OTHER ->
       [known |-> FALSE, early_indicators |-> <<>>, late_indicators |-> <<>>,
        accuracy_weight |-> 0]

\* patterns.get('accuracy_weight', 0.6)
AccuracyWeight(patterns) == IF patterns.known THEN patterns.accuracy_weight ELSE 600

\* the number of the indicators found in all_text
CountIn(indicators, all_text) ==
  Cardinality({k \in 1..Len(indicators) : IsSubstring(indicators[k], all_text)})

\* min(1.0, ratio)
CappedAtOne(ratio) == IF FracGt(ratio, Frac(1, 1)) THEN Frac(1, 1) ELSE ratio

\* current_num / target_num of two fractions
Quotient(x, y) == Frac(x.num * y.den, x.den * y.num)

\* the ratio of two numbers, None unless both are numbers and the target
\* is not 0
RatioOf(current_num, target_num) ==
  IF current_num.ok /\ target_num.ok /\ target_num.num # 0
  THEN [given |-> TRUE,
        val |-> CappedAtOne(Quotient(Aligned(current_num, target_num).x,
                                     Aligned(current_num, target_num).y))]
  ELSE [given |-> FALSE, val |-> Frac(0, 1)]

\* _calculate_progress_ratio: min(1.0, current_num / target_num), or None
_calculate_progress_ratio(current_progress, target_value) ==
  RatioOf(_extract_numeric_value(current_progress), _extract_numeric_value(target_value))

\* the time factor of a horizon
TimeFactor(time_horizon) ==
  IF time_horizon <= 5 THEN 200 ELSE IF time_horizon <= 10 THEN 0 ELSE -200

\* the base score of a progress ratio
BaseScore(progress_ratio) ==
  IF ~progress_ratio.given THEN 0
  ELSE IF ~FracGt(Frac(8, 10), progress_ratio.val) THEN 300
  ELSE IF ~FracGt(Frac(5, 10), progress_ratio.val) THEN 100
  ELSE -200

\* mutant of Likelihood: the confidence of LIKELY EARLY and LATE-RISK is not
\* capped at 0.9
Likelihood_Uncapped(final_score) ==
  IF final_score > 150
  THEN [likelihood |-> "LIKELY EARLY", confidence |-> 600 + final_score]
  ELSE IF final_score < -150
  THEN [likelihood |-> "LATE-RISK", confidence |-> 600 + Abs(final_score)]
  ELSE [likelihood |-> "ON-TIME", confidence |-> 600 + Abs(final_score) \div 2]

\* the classification of the final score, and the confidence
Likelihood(final_score) ==
  IF final_score > 150
  THEN [likelihood |-> "LIKELY EARLY", confidence |-> Min(900, 600 + final_score)]
  ELSE IF final_score < -150
  THEN [likelihood |-> "LATE-RISK", confidence |-> Min(900, 600 + Abs(final_score))]
  ELSE [likelihood |-> "ON-TIME", confidence |-> 600 + Abs(final_score) \div 2]

\* f"{target_text} {progress_text} {metric_text}" of the lowered texts
AllText(prediction) ==
  Lower(prediction.target_value) \o <<" ">> \o Lower(prediction.current_progress)
    \o <<" ">> \o Lower(prediction.metric)

\* (accuracy_weight - 0.5) * 0.2
HistoricalFactor(patterns) == ((AccuracyWeight(patterns) - 500) * 200) \div 1000

\* base_score + indicator_score + time_factor + historical_factor
FinalScore(progress_ratio, early_score, late_score, time_horizon, patterns) ==
  BaseScore(progress_ratio) + (early_score - late_score) * 100
    + TimeFactor(time_horizon) + HistoricalFactor(patterns)

\* the analysis that is returned, with the scores it came from
Analysis(prediction, early_score, late_score, progress_ratio, final_score) ==
  [metric |-> prediction.metric,
   target_value |-> prediction.target_value,
   current_progress |-> prediction.current_progress,
   likelihood |-> Likelihood(final_score).likelihood,
   confidence |-> Likelihood(final_score).confidence,
   early_score |-> early_score,
   late_score |-> late_score,
   progress_ratio |-> progress_ratio,
   final_score |-> final_score]

\* the analysis of given indicator counts and a given progress ratio
Scored(prediction, early_score, late_score, progress_ratio, time_horizon, patterns) ==
  Analysis(prediction, early_score, late_score, progress_ratio,
           FinalScore(progress_ratio, early_score, late_score, time_horizon, patterns))

\* the analysis of a prediction under the patterns of its sector
AnalysisUnder(prediction, patterns, all_text, time_horizon) ==
  Scored(prediction,
         CountIn(patterns.early_indicators, all_text),
         CountIn(patterns.late_indicators, all_text),
         _calculate_progress_ratio(prediction.current_progress, prediction.target_value),
         time_horizon, patterns)

\* _analyze_single_prediction; early_score, late_score, progress_ratio and
\* final_score are kept with the result as history
_analyze_single_prediction(prediction, sector, time_horizon) ==
  AnalysisUnder(prediction, SectorPatterns(sector), AllText(prediction), time_horizon)

\* 1 for LIKELY EARLY, -1 for LATE-RISK, 0 for ON-TIME
LikelihoodScore(a) ==
  CASE a.likelihood = "LIKELY EARLY" -> 1
    [] a.likelihood = "LATE-RISK" -> -1
    [] OTHER -> 0

\* total_score of the predictions
RECURSIVE TotalScore(_)
TotalScore(predictions) ==
  IF predictions = <<>> THEN 0
  ELSE LikelihoodScore(Head(predictions)) + TotalScore(Tail(predictions))

\* avg_score > 0.3, avg_score < -0.3, else ON-TIME
ByAverage(total_score, n) ==
  IF total_score * 10 > 3 * n THEN "LIKELY EARLY"
  ELSE IF total_score * 10 < -3 * n THEN "LATE-RISK"
  ELSE "ON-TIME"

\* _calculate_sector_likelihood
_calculate_sector_likelihood(predictions) ==
  IF predictions = <<>> THEN "ON-TIME"
  ELSE ByAverage(TotalScore(predictions), Len(predictions))

\* sum(p.get('confidence', 0.0) for p in predictions)
RECURSIVE SumConfidence(_)
SumConfidence(predictions) ==
  IF predictions = <<>> THEN 0
  ELSE Head(predictions).confidence + SumConfidence(Tail(predictions))

\* max(0.0, 1.0 - time_horizon / 20.0) * 0.1, over 1000 * n
HorizonFactor(time_horizon, n) ==
  IF time_horizon >= 20 THEN 0 ELSE 5 * n * (20 - time_horizon)

\* min(1.0, avg_confidence + count_factor + time_factor), over 1000 * n
ConfidenceOf(sum, n, time_horizon) ==
  CappedAtOne(Frac(sum + 20 * n * Min(n, 5) + HorizonFactor(time_horizon, n), 1000 * n))

\* _calculate_confidence_score, as a fraction: the average confidence, the
\* count factor min(1.0, n / 5.0) * 0.1 and the time factor
_calculate_confidence_score(predictions, time_horizon) ==
  IF predictions = <<>> THEN Frac(0, 1)
  ELSE ConfidenceOf(SumConfidence(predictions), Len(predictions), time_horizon)

\* results[sector] of the analysed predictions
SectorResult(sector_predictions, time_horizon) ==
  [predictions |-> sector_predictions,
   overall_likelihood |-> IF sector_predictions = <<>> THEN "ON-TIME"
                          ELSE _calculate_sector_likelihood(sector_predictions),
   confidence_score |-> IF sector_predictions = <<>> THEN Frac(0, 1)
                        ELSE _calculate_confidence_score(sector_predictions, time_horizon)]

\* analyze_future_likelihood for the predictions of one sector
analyze_future_likelihood(predictions, sector, target_year, current_year) ==
  SectorResult([k \in 1..Len(predictions) |->
                  _analyze_single_prediction(predictions[k], sector,
                                             target_year - current_year)],
               target_year - current_year)

MaxPredictions == 2   \* predictions of the sector in one call

PredictionEntries ==
  {[metric |-> <<"S", "o", "l", "a", "r", " ", "c", "a", "p", "a", "c", "i", "t", "y">>, target_value |-> <<"1", "0", "0", " ", "G", "W">>, current_progress |-> <<"9", "0", " ", "G", "W">>],
   [metric |-> <<"C", "o", "a", "l", " ", "g", "r", "i", "d", " ", "t", "r", "a", "n", "s", "m", "i", "s", "s", "i", "o", "n">>, target_value |-> <<"1", "0", "0", " ", "G", "W">>, current_progress |-> <<"1", "0", " ", "G", "W">>],
   [metric |-> <<"M", "e", "t", "r", "o", " ", "l", "i", "n", "e", "s">>, target_value |-> <<"1", "0", "0", " ", "G", "W">>, current_progress |-> <<"6", "0", " ", "G", "W">>],
   [metric |-> <<"L", "i", "t", "e", "r", "a", "c", "y", " ", "r", "a", "t", "e">>, target_value |-> <<"0">>, current_progress |-> <<"5", " ", "%">>],
   [metric |-> <<"I", "T", " ", "e", "x", "p", "o", "r", "t", "s">>, target_value |-> <<"h", "i", "g", "h">>, current_progress |-> <<>>],
   [metric |-> <<"W", "i", "n", "d", " ", "a", "n", "d", " ", "s", "o", "l", "a", "r", " ", "r", "e", "n", "e", "w", "a", "b", "l", "e", " ", "d", "i", "g", "i", "t", "a", "l">>, target_value |-> <<"1", "0", "0", " ", "G", "W">>, current_progress |-> <<"3", "0", "0", " ", "G", "W">>]}

\* the sectors of the calls: three of the table and one that is not in it
CallSectors == {"Energy", "Technology", "Infrastructure", "Tourism"}

\* target_year - current_year of the calls
Horizons == {-30, 5, 6, 10, 11, 25}

LikelihoodInputs ==
  {[predictions |-> ps, sector |-> sc, time_horizon |-> h] :
     ps \in SeqsUpTo(PredictionEntries, MaxPredictions) \ {<<>>},
     sc \in CallSectors, h \in Horizons}

LikelihoodInit ==
  /\ likeIn = [predictions |-> <<>>, sector |-> "none", time_horizon |-> 0]
  /\ likeOut = [op |-> "none", val |-> <<>>]

\* the engine before a call on the estimator whose arguments are chosen
LikelihoodCallInit ==
  /\ likeIn \in LikelihoodInputs
  /\ likeOut = [op |-> "none", val |-> <<>>]

\* one call of _analyze_single_prediction
AnalyzeSinglePrediction ==
  /\ likeOut.op = "none"
  /\ likeOut' = [op |-> "_analyze_single_prediction",
                 val |-> _analyze_single_prediction(likeIn.predictions[1], likeIn.sector,
                                                    likeIn.time_horizon)]
  /\ UNCHANGED likeIn
  /\ UNCHANGED <<citeVars, cacheVars, searchVars, statusVars, engineVars, parseVars, threadVars>>

\* one call of analyze_future_likelihood, datetime.now().year being utcYear
AnalyzeFutureLikelihood ==
  /\ likeOut.op = "none"
  /\ likeOut' = [op |-> "analyze_future_likelihood",
                 val |-> analyze_future_likelihood(likeIn.predictions, likeIn.sector,
                                                   utcYear + likeIn.time_horizon, utcYear)]
  /\ UNCHANGED likeIn
  /\ UNCHANGED <<citeVars, cacheVars, searchVars, statusVars, engineVars, parseVars, threadVars>>

NextLikelihood == AnalyzeSinglePrediction \/ AnalyzeFutureLikelihood

---------------------------------------------------------------------------
(* Value/Year extractor (dashboard/parser.py)                              *)

GapLimit == 20   \* [^\d]{0,20}

\* the alternatives of the group `unit` before `$`, in the order of the pattern;
\* a character outside ASCII is written by its code point, as one character
UnitTokens == <<
  <<"t", "r", "i", "l", "l", "i", "o", "n">>,
  <<"t", "r", "n">>,
  <<"b", "i", "l", "l", "i", "o", "n">>,
  <<"b", "n">>,
  <<"m", "i", "l", "l", "i", "o", "n">>,
  <<"m", "n">>,
  <<"c", "r", "o", "r", "e">>,
  <<"l", "a", "k", "h">>,
  <<"c", "r">>,
  <<"U+201A", "U+00C7", "U+03C0">>,
  <<"r", "s">>,
  <<"u", "s", "d">>
>>

\* _unit_multipliers: the keys and, at the same places, the multipliers
MultiplierKeys == <<
  <<"t", "r", "i", "l", "l", "i", "o", "n">>,
  <<"t", "r", "n">>,
  <<"b", "i", "l", "l", "i", "o", "n">>,
  <<"b", "n">>,
  <<"m", "i", "l", "l", "i", "o", "n">>,
  <<"m", "n">>,
  <<"c", "r", "o", "r", "e">>,
  <<"c", "r">>,
  <<"l", "a", "k", "h">>,
  <<"U+201A", "U+00C7", "U+03C0">>,
  <<"r", "s">>,
  <<"u", "s", "d">>,
  <<>>
>>
MultiplierValues == <<
  Frac(1000000, 1), Frac(1000000, 1), Frac(1000, 1), Frac(1000, 1), Frac(1, 1), Frac(1, 1), Frac(10, 1), Frac(10, 1), Frac(1, 10), Frac(12, 1000), Frac(12, 1000), Frac(1, 1), Frac(1, 1)
>>

\* _unit_multipliers.get(unit, 1)
UnitMultiplier(unit) ==
  IF \E k \in 1..Len(MultiplierKeys) : MultiplierKeys[k] = unit
  THEN MultiplierValues[CHOOSE k \in 1..Len(MultiplierKeys) : MultiplierKeys[k] = unit]
  ELSE Frac(1, 1)

NoMatch == [ok |-> FALSE, value_end |-> 0, unit |-> <<>>, stop |-> 0]

\* the number of characters of text from place p on that are in chars, up
\* to limit of them
RECURSIVE RunLength(_, _, _, _)
RunLength(text, p, chars, limit) ==
  IF limit > 0 /\ p <= Len(text) /\ text[p] \in chars
  THEN 1 + RunLength(text, p + 1, chars, limit - 1)
  ELSE 0

TextChars(text) == {text[i] : i \in 1..Len(text)}

\* the k-th alternative of the group `unit` matches at place p, letters
\* compared without case
TokenAt(text, p, k) ==
  /\ p + Len(UnitTokens[k]) - 1 <= Len(text)
  /\ Lower(SubSeq(text, p, p + Len(UnitTokens[k]) - 1)) = Lower(UnitTokens[k])

\* the match of the k-th alternative at place p
TokenMatch(text, p, k) ==
  [ok |-> TRUE, value_end |-> 0,
   unit |-> SubSeq(text, p, p + Len(UnitTokens[k]) - 1),
   stop |-> p + Len(UnitTokens[k])]

\* the group `unit` at place p: the first alternative that matches; `$`
\* matches at the end of the text
UnitAt(text, p) ==
  IF \E k \in 1..Len(UnitTokens) : TokenAt(text, p, k)
  THEN TokenMatch(text, p, CHOOSE j \in 1..Len(UnitTokens) :
                             TokenAt(text, p, j) /\ \A h \in 1..(j - 1) : ~TokenAt(text, p, h))
  ELSE IF p = Len(text) + 1
  THEN [ok |-> TRUE, value_end |-> 0, unit |-> <<>>, stop |-> p]
  ELSE NoMatch

\* backtracking: the first way when it matches, else the next one
FirstOk(first, next) == IF first.ok THEN first ELSE next

\* a match of the rest with the place the value ends at
EndingAt(r, value_end) == IF r.ok THEN [r EXCEPT !.value_end = value_end] ELSE NoMatch

\* a match of the rest with the place the value starts at
StartingAt(r, value_start) ==
  IF r.ok
  THEN [ok |-> TRUE, value_start |-> value_start, value_end |-> r.value_end,
        unit |-> r.unit, stop |-> r.stop]
  ELSE NoMatch

\* \s* then the unit, from place p with w white-space characters taken,
\* fewer after a failure
RECURSIVE TrySpace(_, _, _)
TrySpace(text, p, w) ==
  IF w < 0 THEN NoMatch
  ELSE FirstOk(UnitAt(text, p + w), TrySpace(text, p, w - 1))

\* the white space at place p and the unit
SpaceAndUnit(text, p) == TrySpace(text, p, RunLength(text, p, {" "}, Len(text)))

\* (?:\.\d+)? and the rest, from place p with f digits of the fraction
\* taken, fewer after a failure, and no fraction at last
RECURSIVE TryFraction(_, _, _)
TryFraction(text, p, f) ==
  IF f <= 0
  THEN EndingAt(SpaceAndUnit(text, p), p - 1)
  ELSE FirstOk(EndingAt(SpaceAndUnit(text, p + 1 + f), p + f), TryFraction(text, p, f - 1))

\* the digits after a "." at place q, none without the "."
FractionDigits(text, q) ==
  IF q <= Len(text) /\ text[q] = "."
  THEN RunLength(text, q + 1, Range(Digits), Len(text)) ELSE 0

\* [\d,]+ and the rest, from place p with v characters taken, fewer after a
\* failure
RECURSIVE TryValue(_, _, _)
TryValue(text, p, v) ==
  IF v < 1 THEN NoMatch
  ELSE FirstOk(TryFraction(text, p + v, FractionDigits(text, p + v)),
               TryValue(text, p, v - 1))

\* [^\d]{0,20} and the rest, from place p with g characters taken, fewer
\* after a failure
RECURSIVE TryGap(_, _, _)
TryGap(text, p, g) ==
  IF g < 0 THEN NoMatch
  ELSE FirstOk(StartingAt(TryValue(text, p + g,
                                   RunLength(text, p + g, Range(Digits) \cup {","},
                                             Len(text))),
                          p + g),
               TryGap(text, p, g - 1))

\* 20\d{2}|19\d{2} at place i
IsYearAt(text, i) ==
  /\ i + 3 <= Len(text)
  /\ SubSeq(text, i, i + 1) \in {<<"2", "0">>, <<"1", "9">>}
  /\ IsDigit(text[i + 2])
  /\ IsDigit(text[i + 3])

\* the groups year, value and unit of a match that starts at place i, the
\* place it starts at and the place after it
GroupsOf(text, i, r) ==
  IF ~r.ok THEN [ok |-> FALSE]
  ELSE [ok |-> TRUE, year |-> SubSeq(text, i, i + 3),
        value |-> SubSeq(text, r.value_start, r.value_end),
        unit |-> r.unit, start |-> i, stop |-> r.stop]

\* _number_pattern matched at place i
MatchAt(text, i) ==
  IF ~IsYearAt(text, i) THEN [ok |-> FALSE]
  ELSE GroupsOf(text, i,
                TryGap(text, i + 4,
                       RunLength(text, i + 4, TextChars(text) \ Range(Digits), GapLimit)))

\* _number_pattern.finditer(text) from place i on
RECURSIVE FindIter(_, _)
RECURSIVE FindNext(_, _, _)
FindNext(text, i, mt) ==
  IF mt.ok THEN <<mt>> \o FindIter(text, mt.stop) ELSE FindIter(text, i + 1)

FindIter(text, i) ==
  IF i > Len(text) THEN <<>> ELSE FindNext(text, i, MatchAt(text, i))

\* str.replace(",", "")
RECURSIVE RemoveCommas(_)
RemoveCommas(text) ==
  IF text = <<>> THEN <<>>
  ELSE (IF Head(text) = "," THEN <<>> ELSE <<Head(text)>>) \o RemoveCommas(Tail(text))

\* the float of n digits, then "." and digits when there are more characters
FloatOfParts(whole, frac) ==
  [ok |-> TRUE, num |-> ParseInt(whole \o frac), den |-> Pow10(Len(frac))]

\* the digits of value_raw before a "."
WholeDigits(value_raw) == RunLength(value_raw, 1, Range(Digits), Len(value_raw))

\* float(value_raw) of digits with an optional fraction, as num / den;
\* not ok for the ValueError of the empty text
FloatOf(value_raw) ==
  IF value_raw = <<>> THEN [ok |-> FALSE, num |-> 0, den |-> 1]
  ELSE FloatOfParts(SubSeq(value_raw, 1, WholeDigits(value_raw)),
                    SubSeq(value_raw, WholeDigits(value_raw) + 2, Len(value_raw)))

\* the pair of a year, a value and a multiplier: pairs.append((year,
\* value * multiplier)), nothing after the ValueError
PairFrom(year, value, multiplier) ==
  IF ~value.ok THEN <<>>
  ELSE <<[year |-> year,
          value |-> Frac(value.num * multiplier.num, value.den * multiplier.den)]>>

\* the body of the loop for one match
PairOf(mt) ==
  PairFrom(ParseInt(mt.year), FloatOf(RemoveCommas(mt.value)),
           UnitMultiplier(Lower(mt.unit)))

\* mutant of PairsOf: a match whose value cannot be parsed ends the loop
RECURSIVE PairsOf_StopAtError(_)
PairsOf_StopAtError(matches) ==
  IF matches = <<>> THEN <<>>
  ELSE IF FloatOf(RemoveCommas(Head(matches).value)).ok
  THEN PairOf(Head(matches)) \o PairsOf_StopAtError(Tail(matches))
  ELSE <<>>

\* the loop `for m in _number_pattern.finditer(text)` over the matches
RECURSIVE PairsOf(_)
PairsOf(matches) ==
  IF matches = <<>> THEN <<>>
  ELSE PairOf(Head(matches)) \o PairsOf(Tail(matches))

\* extract_year_value_pairs
extract_year_value_pairs(text) == PairsOf(FindIter(text, 1))

\* Texts the extractor is called on.  The only white space in them is the
\* blank.  A text is one year, gap, number and unit put together, or up to
\* MaxMatches phrases joined by blanks, or one of a few sentences.
MaxMatches == 2

YearTexts == {
  <<"2", "0", "2", "0">>,
  <<"1", "9", "9", "9">>,
  <<"1", "8", "9", "9">>
}
GapTexts == {
  <<" ">>,
  <<" ", "r", "e", "v", "e", "n", "u", "e", " ">>
}
NumberTexts == {
  <<"5", "0", "0">>,
  <<"1", ",", "2", ".", "5">>,
  <<",", ",">>
}
UnitTexts == {
  <<>>,
  <<" ", "t", "r", "i", "l", "l", "i", "o", "n">>,
  <<"t", "r", "n">>,
  <<" ", "B", "i", "l", "l", "i", "o", "n">>,
  <<"b", "n">>,
  <<" ", "m", "i", "l", "l", "i", "o", "n">>,
  <<"m", "n">>,
  <<" ", "c", "r", "o", "r", "e">>,
  <<"c", "r">>,
  <<" ", "l", "a", "k", "h">>,
  <<" ", "L", "a", "k", "h">>,
  <<" ", "r", "s">>,
  <<" ", "U", "S", "D">>,
  <<" ", "U+201A", "U+00C7", "U+03C0">>,
  <<" ", "G", "W">>,
  <<" ", "m", "o", "r", "e">>
}
Phrases == {
  <<"2", "0", "2", "0", " ", "5", " ", "b", "n">>,
  <<"1", "9", "9", "9", " ", ",", ",", " ", "b", "n">>,
  <<"2", "0", "2", "1", " ", "3", " ", "L", "a", "k", "h">>,
  <<"2", "0", "2", "5", " ", "7", " ", "r", "s">>,
  <<"r", "e", "v", "e", "n", "u", "e", " ", "5", "0", "0", " ", "m", "n">>
}
Sentences == {
  <<"I", "n", "d", "i", "a", "'", "s", " ", "G", "D", "P", " ", "w", "a", "s", " ", "$", "5", " ", "t", "r", "i", "l", "l", "i", "o", "n", " ", "b", "y", " ", "2", "0", "2", "5">>,
  <<"i", "n", " ", "2", "0", "2", "5", " ", "G", "D", "P", " ", "$", "5", " ", "t", "r", "i", "l", "l", "i", "o", "n">>,
  <<"G", "D", "P", " ", "g", "r", "e", "w", " ", "5", " ", "b", "n">>,
  <<"1", "2", "0", "2", "0", " ", "5", " ", "b", "n", "x">>,
  <<"2", "0", "2", "0", " ", "2", "0", "2", "1", " ", "5", " ", "b", "n">>,
  <<"2", "0", "2", "0", " ", "x", "x", "x", "x", "x", "x", "x", "x", "x", "x", "x", "x", "x", "x", "x", "x", "x", "x", "x", "5", " ", "b", "n">>,
  <<"2", "0", "2", "0", " ", "x", "x", "x", "x", "x", "x", "x", "x", "x", "x", "x", "x", "x", "x", "x", "x", "x", "x", "x", "x", "5", " ", "b", "n">>,
  <<"2", "0", "2", "0", " ", "5", ".", " ", "b", "n">>
}

RECURSIVE JoinByBlank(_)
JoinByBlank(parts) ==
  IF parts = <<>> THEN <<>>
  ELSE IF Len(parts) = 1 THEN parts[1]
  ELSE parts[1] \o <<" ">> \o JoinByBlank(Tail(parts))

ParserTexts ==
  {y \o g \o n \o u : y \in YearTexts, g \in GapTexts, n \in NumberTexts, u \in UnitTexts}
  \cup {JoinByBlank(ps) : ps \in SeqsUpTo(Phrases, MaxMatches)}
  \cup Sentences

ParserInit ==
  /\ parseIn = <<>>
  /\ parseOut = [op |-> "none", pairs |-> <<>>, matches |-> <<>>]

\* the extractor before a call whose text is chosen
ParserCallInit ==
  /\ parseIn \in ParserTexts
  /\ parseOut = [op |-> "none", pairs |-> <<>>, matches |-> <<>>]

\* one call of extract_year_value_pairs; the matches of the pattern are kept
\* as history
ExtractYearValuePairs ==
  /\ parseOut.op = "none"
  /\ parseOut' = [op |-> "extract_year_value_pairs",
                  pairs |-> extract_year_value_pairs(parseIn),
                  matches |-> FindIter(parseIn, 1)]
  /\ UNCHANGED parseIn
  /\ UNCHANGED <<citeVars, cacheVars, searchVars, statusVars, engineVars, likeVars, threadVars>>

NextParser == ExtractYearValuePairs

---------------------------------------------------------------------------
(* The registry as a state machine                                         *)

\* history: first tag ever returned by add for each url
RECURSIVE NoteFirst(_, _, _)
NoteFirst(ft, urls, tags) ==
  IF urls = <<>> THEN ft
  ELSE NoteFirst(IF ft[Head(urls)] = NoTag
                 THEN [ft EXCEPT ![Head(urls)] = Head(tags)] ELSE ft,
                 Tail(urls), Tail(tags))

\* history: first-seen order of the urls passed to add
RECURSIVE NoteSeen(_, _)
NoteSeen(sn, urls) ==
  IF urls = <<>> THEN sn
  ELSE NoteSeen(IF Head(urls) \in Range(sn) THEN sn ELSE Append(sn, Head(urls)),
                Tail(urls))

CiteInit ==
  /\ citations = <<>>
  /\ ret = [op |-> "init", arg |-> <<>>, val |-> <<>>]
  /\ firstTag = [u \in Urls |-> NoTag]
  /\ seen = <<>>
  /\ rendered = FALSE

Add(url) ==
  LET r == add(citations, url) IN
  /\ citations' = r.cit
  /\ ret' = [op |-> "add", arg |-> <<url>>, val |-> r.tag]
  /\ firstTag' = NoteFirst(firstTag, <<url>>, <<r.tag>>)
  /\ seen' = NoteSeen(seen, <<url>>)
  /\ UNCHANGED rendered
  /\ UNCHANGED <<cacheVars, searchVars, statusVars, engineVars, parseVars, likeVars, threadVars>>

Inline(url) ==
  LET r == inline(citations, url) IN
  /\ citations' = r.cit
  /\ ret' = [op |-> "inline", arg |-> <<url>>, val |-> r.text]
  /\ firstTag' = NoteFirst(firstTag, <<url>>, <<add(citations, url).tag>>)
  /\ seen' = NoteSeen(seen, <<url>>)
  /\ UNCHANGED rendered
  /\ UNCHANGED <<cacheVars, searchVars, statusVars, engineVars, parseVars, likeVars, threadVars>>

Render ==
  /\ ret' = [op |-> "render", arg |-> <<>>, val |-> render(citations)]
  /\ rendered' = TRUE
  /\ UNCHANGED <<citations, firstTag, seen>>
  /\ UNCHANGED <<cacheVars, searchVars, statusVars, engineVars, parseVars, likeVars, threadVars>>

\* Dashboard.render_citations: the lines f"{tag}: {url}" (joined by "\n")
RenderCitations ==
  LET rows == render(citations) IN
  /\ ret' = [op |-> "render_citations", arg |-> <<>>,
             val |-> [i \in 1..Len(rows) |-> rows[i][1] \o <<":", " ">> \o <<rows[i][2]>>]]
  /\ rendered' = TRUE
  /\ UNCHANGED <<citations, firstTag, seen>>
  /\ UNCHANGED <<cacheVars, searchVars, statusVars, engineVars, parseVars, likeVars, threadVars>>

\* Dashboard.investigate_past_forecasts: one add per search result;
\* the "source" column of the returned rows is the tag
InvestigatePastForecasts(results) ==
  LET r == AddEach(citations, results) IN
  /\ citations' = r.cit
  /\ ret' = [op |-> "investigate_past_forecasts", arg |-> results, val |-> r.tags]
  /\ firstTag' = NoteFirst(firstTag, results, r.tags)
  /\ seen' = NoteSeen(seen, results)
  /\ UNCHANGED rendered
  /\ UNCHANGED <<cacheVars, searchVars, statusVars, engineVars, parseVars, likeVars, threadVars>>

\* Dashboard.evaluate_future_target: one add per result of results[:5]
EvaluateFutureTarget(results) ==
  LET cited == Take(results, EvidenceLimit)
      r == AddEach(citations, cited) IN
  /\ citations' = r.cit
  /\ ret' = [op |-> "evaluate_future_target", arg |-> cited, val |-> r.tags]
  /\ firstTag' = NoteFirst(firstTag, cited, r.tags)
  /\ seen' = NoteSeen(seen, cited)
  /\ UNCHANGED rendered
  /\ UNCHANGED <<cacheVars, searchVars, statusVars, engineVars, parseVars, likeVars, threadVars>>

\* what the search returned with a url: the snippet and the title of the
\* i-th url are taken in turn from the two lists
Snippets == <<
  <<"2", "0", "2", "0", " ", "5", " ", "b", "n">>,
  <<"2", "0", "2", "0", " ", "3", " ", "b", "n">>,
  <<"n", "o", " ", "f", "i", "g", "u", "r", "e", "s">>,
  <<"2", "0", "1", "9", " ", "2", " ", "b", "n", " ", "a", "n", "d", " ", "2", "0", "2", "1", " ", "7", " ", "b", "n">>
>>
Titles == <<
  <<"r", "e", "p", "o", "r", "t">>,
  <<"2", "0", "2", "1", " ", "o", "u", "t", "l", "o", "o", "k", " ", "9", " ", "m", "n">>,
  <<>>
>>

UrlNumber(url) == CHOOSE i \in 1..(NumBatch + NumUrls) : Url(i) = url

SearchResult(url) ==
  [url |-> url,
   snippet |-> Snippets[((UrlNumber(url) - 1) % Len(Snippets)) + 1],
   title |-> Titles[((UrlNumber(url) - 1) % Len(Titles)) + 1]]

\* the arguments start_year and end_year of money_flow_data: the defaults,
\* and one year
YearRanges == {[start_year |-> 2010, end_year |-> Absent],
               [start_year |-> 2021, end_year |-> Some(2021)]}

\* end_year or datetime.utcnow().year
EndYearOr(end_year, utcnow_year) ==
  IF end_year.given /\ end_year.val # 0 THEN end_year.val ELSE utcnow_year

\* series after the pairs of one result: series.setdefault(year, []).append(val)
\* for each pair whose year is in the range
RECURSIVE AppendPairs(_, _, _, _)
AppendPairs(series, pairs, start_year, end_year) ==
  IF pairs = <<>> THEN series
  ELSE LET year == Head(pairs).year
           val == Head(pairs).value
           next == IF year < start_year \/ year > end_year THEN series
                   ELSE IF year \in DOMAIN series
                   THEN [series EXCEPT ![year] = Append(@, val)]
                   ELSE [y \in DOMAIN series \cup {year} |->
                           IF y = year THEN <<val>> ELSE series[y]]
       IN AppendPairs(next, Tail(pairs), start_year, end_year)

\* the loop `for res in results` on series
RECURSIVE SeriesOf(_, _, _, _)
SeriesOf(series, results, start_year, end_year) ==
  IF results = <<>> THEN series
  ELSE LET res == SearchResult(Head(results))
           pairs == extract_year_value_pairs(res.snippet \o <<" ">> \o res.title)
       IN SeriesOf(AppendPairs(series, pairs, start_year, end_year), Tail(results),
                   start_year, end_year)

\* sorted(values)
RECURSIVE InsertSorted(_, _)
InsertSorted(sorted, v) ==
  IF sorted = <<>> THEN <<v>>
  ELSE IF FracLeq(v, Head(sorted)) /\ ~FracEq(v, Head(sorted)) THEN <<v>> \o sorted
  ELSE <<Head(sorted)>> \o InsertSorted(Tail(sorted), v)

RECURSIVE Sorted(_)
Sorted(values) ==
  IF values = <<>> THEN <<>>
  ELSE InsertSorted(Sorted(SubSeq(values, 1, Len(values) - 1)), values[Len(values)])

\* values_sorted[len(values) // 2]
MedianVal(values) == Sorted(values)[(Len(values) \div 2) + 1]

\* aggregated: the median value of each year of series
Aggregated(series) == [year \in DOMAIN series |-> MedianVal(series[year])]

\* Dashboard.money_flow_data: the series of the results in the range of
\* years, one add per search result, the median per year
MoneyFlowData(results, range) ==
  LET r == AddEach(citations, results)
      end_year == EndYearOr(range.end_year, utcYear)
      series == SeriesOf(<<>>, results, range.start_year, end_year) IN
  /\ citations' = r.cit
  /\ ret' = [op |-> "money_flow_data", arg |-> results, val |-> r.tags,
             start_year |-> range.start_year, end_year |-> end_year,
             aggregated |-> Aggregated(series)]
  /\ firstTag' = NoteFirst(firstTag, results, r.tags)
  /\ seen' = NoteSeen(seen, results)
  /\ UNCHANGED rendered
  /\ UNCHANGED <<cacheVars, searchVars, statusVars, engineVars, parseVars, likeVars, threadVars>>

NextCite ==
  \/ \E url \in FreshUrls : Add(url)
  \/ \E url \in FreshUrls : Inline(url)
  \/ Render
  \/ RenderCitations
  \/ \E results \in ResultLists : InvestigatePastForecasts(results)
  \/ \E results \in ResultLists : EvaluateFutureTarget(results)
  \/ \E results \in ResultLists : \E range \in YearRanges : MoneyFlowData(results, range)

---------------------------------------------------------------------------
(* CitationManager.add called by threads that share one registry.  A       *)
(* thread runs the statements of add one at a time and another thread may  *)
(* run between any two of them.  When the callers serialize, a thread      *)
(* takes the lock before its call and gives it back after the return.      *)

NumThreads == 2

Threads == 1..NumThreads

Idle == [pc |-> "idle", url |-> "", tag |-> NoTag]

\* mutant of LockFree: the lock excludes nobody
LockFree_Always(holder) == TRUE

\* the lock can be taken
LockFree(holder) == holder = 0

ThreadsInit ==
  /\ threads = [t \in Threads |-> Idle]
  /\ lock = 0
  /\ serialized = FALSE

\* the threads before their calls, the callers' discipline chosen
ThreadsCallInit ==
  /\ threads = [t \in Threads |-> Idle]
  /\ lock = 0
  /\ serialized \in BOOLEAN

\* thread t calls add(url), under the lock when the callers serialize
CallAdd(t, url) ==
  /\ threads[t].pc = "idle"
  /\ serialized => LockFree(lock)
  /\ threads' = [threads EXCEPT ![t] = [pc |-> "check", url |-> url, tag |-> NoTag]]
  /\ lock' = IF serialized THEN t ELSE lock
  /\ UNCHANGED <<serialized, citeVars>>
  /\ UNCHANGED <<cacheVars, searchVars, statusVars, engineVars, parseVars, likeVars>>

\* `if url in self._citations: return self._citations[url]`, the test and,
\* with the url present, the read of its tag
CheckMember(t) ==
  /\ threads[t].pc = "check"
  /\ threads' = [threads EXCEPT ![t] =
                   IF DictHas(citations, threads[t].url)
                   THEN [@ EXCEPT !.pc = "return",
                                  !.tag = DictGet(citations, threads[t].url)]
                   ELSE [@ EXCEPT !.pc = "format"]]
  /\ UNCHANGED <<lock, serialized, citeVars>>
  /\ UNCHANGED <<cacheVars, searchVars, statusVars, engineVars, parseVars, likeVars>>

\* tag = f"web:{len(self._citations) + 1}"
ReadLength(t) ==
  /\ threads[t].pc = "format"
  /\ threads' = [threads EXCEPT ![t] =
                   [@ EXCEPT !.pc = "store", !.tag = FormatTag(Len(citations) + 1)]]
  /\ UNCHANGED <<lock, serialized, citeVars>>
  /\ UNCHANGED <<cacheVars, searchVars, statusVars, engineVars, parseVars, likeVars>>

\* self._citations[url] = tag
Insert(t) ==
  /\ threads[t].pc = "store"
  /\ citations' = DictSet(citations, threads[t].url, threads[t].tag)
  /\ threads' = [threads EXCEPT ![t] = [@ EXCEPT !.pc = "return"]]
  /\ UNCHANGED <<lock, serialized, ret, firstTag, seen, rendered>>
  /\ UNCHANGED <<cacheVars, searchVars, statusVars, engineVars, parseVars, likeVars>>

\* return tag, and the lock given back
ReturnTag(t) ==
  /\ threads[t].pc = "return"
  /\ threads' = [threads EXCEPT ![t] = Idle]
  /\ ret' = [op |-> "add", arg |-> threads[t].url, val |-> threads[t].tag]
  /\ lock' = IF lock = t THEN 0 ELSE lock
  /\ UNCHANGED <<serialized, citations, firstTag, seen, rendered>>
  /\ UNCHANGED <<cacheVars, searchVars, statusVars, engineVars, parseVars, likeVars>>

NextThreads ==
  \/ \E t \in Threads : \E url \in FreshUrls : CallAdd(t, url)
  \/ \E t \in Threads : CheckMember(t)
  \/ \E t \in Threads : ReadLength(t)
  \/ \E t \in Threads : Insert(t)
  \/ \E t \in Threads : ReturnTag(t)

InitCite == CiteInit /\ CacheInit /\ SearchInit /\ StatusInit /\ EngineInit /\ ParserInit /\ LikelihoodInit /\ ThreadsInit

SpecCite == InitCite /\ [][NextCite]_vars

InitCache == CiteInit /\ CacheInit /\ SearchInit /\ StatusInit /\ EngineInit /\ ParserInit /\ LikelihoodInit /\ ThreadsInit

SpecCache == InitCache /\ [][NextCache]_vars

InitSearch == CiteInit /\ CacheInit /\ SearchInit /\ StatusInit /\ EngineInit /\ ParserInit /\ LikelihoodInit /\ ThreadsInit

SpecSearch == InitSearch /\ [][NextSearch]_vars

InitStatus == CiteInit /\ CacheInit /\ SearchInit /\ StatusInit /\ EngineInit /\ ParserInit /\ LikelihoodInit /\ ThreadsInit

SpecStatus == InitStatus /\ [][NextStatus]_vars

InitEngine == CiteInit /\ CacheInit /\ SearchInit /\ StatusInit /\ EngineCallInit /\ ParserInit /\ LikelihoodInit /\ ThreadsInit

SpecEngine == InitEngine /\ [][NextEngine]_vars

InitParser == CiteInit /\ CacheInit /\ SearchInit /\ StatusInit /\ EngineInit /\ ParserCallInit /\ LikelihoodInit /\ ThreadsInit

SpecParser == InitParser /\ [][NextParser]_vars

InitLikelihood == CiteInit /\ CacheInit /\ SearchInit /\ StatusInit /\ EngineInit /\ ParserInit /\ LikelihoodCallInit /\ ThreadsInit

SpecLikelihood == InitLikelihood /\ [][NextLikelihood]_vars

InitThreads == CiteInit /\ CacheInit /\ SearchInit /\ StatusInit /\ EngineInit /\ ParserInit /\ LikelihoodInit /\ ThreadsCallInit

SpecThreads == InitThreads /\ [][NextThreads]_vars

InitForecasts == CiteInit /\ CacheInit /\ SearchInit /\ StatusInit /\ EngineInit /\ ParserInit /\ LikelihoodInit /\ ThreadsInit

SpecForecasts == InitForecasts /\ [][NextForecasts]_vars

---------------------------------------------------------------------------
(* Claims about the citation registry, checked under SpecCite             *)

DashboardOps == {"investigate_past_forecasts", "evaluate_future_target", "money_flow_data"}

\* C1: every add(u), called directly, through inline or by a Dashboard
\* operation, returns the tag the first add(u) returned, whatever was added
\* in between.
C1_AddIdempotent ==
  /\ ret.op = "add" => ret.val = firstTag[ret.arg[1]]
  /\ ret.op = "inline" => ret.val = <<"[">> \o firstTag[ret.arg[1]] \o <<"]">>
  /\ ret.op \in DashboardOps =>
       /\ Len(ret.val) = Len(ret.arg)
       /\ \A i \in 1..Len(ret.arg) : ret.val[i] = firstTag[ret.arg[i]]

\* a repeated add(u) after other urls were registered behind u
C1_Witness ==
  /\ ret.op = "add"
  /\ \E i \in 1..Len(citations) :
       /\ citations[i].url = ret.arg[1]
       /\ i + 2 <= Len(citations)
       /\ citations[i + 1].url \in Range(BatchUrls)

C2_OneToOne ==
  /\ Len(citations) = Len(seen)
  /\ \A k \in 1..Len(citations) :
       citations[k] = [url |-> seen[k], tag |-> FormatTag(k)]
  /\ \A i, j \in 1..Len(citations) :
       i # j => citations[i].url # citations[j].url /\ citations[i].tag # citations[j].tag

C2_AppendOnly ==
  /\ Len(citations') >= Len(citations)
  /\ \A k \in 1..Len(citations) : citations'[k] = citations[k]

\* C2: the registry maps its n distinct urls one-to-one onto web:1 .. web:n in
\* first-seen order (the k-th distinct url holds web:k, no tag is shared), and
\* no step removes, reuses or renumbers a stored entry.
C2_Registry == [](C2_OneToOne) /\ [][C2_AppendOnly]_vars

\* evaluate_future_target registered the first five results of the long list,
\* another url came next, and the rest of the long list after it
C2_Witness ==
  /\ Len(citations) >= EvidenceLimit + 2
  /\ citations[EvidenceLimit + 1].url \in FreshUrls
  /\ citations[EvidenceLimit + 2].url = BatchUrls[EvidenceLimit + 1]
  /\ ret.op \in DashboardOps

C3_RenderOrder ==
  /\ ret.op = "render" =>
       /\ Len(ret.val) = Len(citations)
       /\ \A k \in 1..Len(citations) :
            Cardinality({i \in 1..Len(ret.val) :
                           ret.val[i] = <<citations[k].tag, citations[k].url>>}) = 1
       /\ \A i, j \in 1..Len(ret.val) :
            i < j => TagNumber(ret.val[i][1]) < TagNumber(ret.val[j][1])
       /\ \A i \in 1..Len(ret.val) : ret.val[i][2] = seen[i]
  /\ ret.op = "render_citations" =>
       /\ Len(ret.val) = Len(citations)
       /\ \A i \in 1..Len(ret.val) :
            ret.val[i] = FormatTag(i) \o <<":", " ">> \o <<seen[i]>>
  /\ (rendered /\ ret.op = "add") => ret.val = firstTag[ret.arg[1]]

C3_RenderFrame ==
  ret'.op \in {"render", "render_citations"} =>
    /\ citations' = citations
    /\ firstTag' = firstTag

\* C3: render returns every registered (tag, url) pair exactly once, by
\* ascending tag number (web:9 before web:10), which is first-seen order; a
\* render leaves the registry unchanged, and an add after any number of
\* renders still returns the url's first tag.
C3_Render == [](C3_RenderOrder) /\ [][C3_RenderFrame]_vars

\* render of a registry of ten or more urls
C3_Witness ==
  /\ ret.op = "render"
  /\ Len(ret.val) >= 10

---------------------------------------------------------------------------
(* Claims about the cache layer, checked under SpecCache                   *)

IsCall == call.op \in {"get_cached_or_fetch", "fetch_actual_outcomes"}

\* the entry the key held when the last call was made (NoEntry if none)
EntryBefore == IF call.before = {} THEN NoEntry ELSE CHOOSE e \in call.before : TRUE

\* true age, in seconds, of that entry at the time of the call
AgeAtCall == call.at - EntryBefore.timestamp

\* C4: a call on a key whose entry is less than the TTL old returns the
\* stored value without calling fetch_func; so within the TTL window of an
\* entry fetch_func is called only by the fetch that stored it.
C4_HitWithinTTL ==
  /\ (IsCall /\ call.before # {} /\ AgeAtCall < CacheDuration) =>
       /\ ~call.invoked
       /\ call.ret = EntryBefore.data
  /\ \A k \in CacheKeys : windowCalls[k] <= 1

\* a hit one second before the entry expires, with fetch_func ready to return
\* something else
C4_Witness ==
  /\ IsCall /\ call.before # {}
  /\ AgeAtCall = CacheDuration - 1
  /\ call.outcome \in FetchData /\ call.outcome # EntryBefore.data
  /\ ~call.invoked

\* C5 (as claimed): whenever the entry is TTL seconds old or older, one day
\* or more included, the call invokes fetch_func and returns and stores the
\* fresh result.
C5_ExpiryRefetches ==
  (IsCall /\ call.before # {} /\ AgeAtCall >= CacheDuration) =>
    /\ call.invoked
    /\ call.outcome # Raise =>
         /\ call.ret = call.outcome
         /\ [key |-> call.key, data |-> call.outcome, timestamp |-> call.at] \in cache

\* C6 (as claimed): when fetch_func raises, the call returns the null result
\* (the empty mapping from the public wrapper) and leaves the cache as it
\* was, and the next call with the same key invokes fetch_func again.
C6_FailureRetried ==
  /\ (IsCall /\ call.raised) =>
       /\ call.ret = IF call.op = "fetch_actual_outcomes" THEN EmptyMap ELSE None
       /\ cache = call.cacheWas
  /\ (IsCall /\ call.afterRaise) => call.invoked

\* C7: each key holds at most one entry, and its timestamp is the time of the
\* key's last successful fetch (a hit and a failed fetch do not move it).
C7_OneEntryLastSuccess ==
  \A k \in CacheKeys :
    /\ Cardinality({e \in cache : e.key = k}) <= 1
    /\ CacheHas(cache, k) <=> lastSuccess[k] # NoTime
    /\ CacheHas(cache, k) => CacheGet(cache, k).timestamp = lastSuccess[k]

\* an expired entry was overwritten by a successful fetch, after a failed
\* fetch on the same key, while the other key holds an older entry
C7_Witness ==
  /\ IsCall /\ call.before # {} /\ call.invoked /\ ~call.raised /\ call.afterRaise
  /\ EntryBefore.data # call.outcome
  /\ \A k \in CacheKeys : CacheHas(cache, k)
  /\ \E k \in CacheKeys : lastSuccess[k] < now

---------------------------------------------------------------------------
(* Claims about the search aggregator, checked under SpecSearch            *)

\* result a was answered before result b: by an earlier domain of the
\* allow-list, or earlier in the answer of the same domain
SrcBefore(a, b) == a.src[1] < b.src[1] \/ (a.src[1] = b.src[1] /\ a.src[2] < b.src[2])

\* C8 (as claimed): search returns at most max_results results, for every
\* max_results >= 0.
C8_AtMostMaxResults ==
  pc = "done" => Len(unique_results) <= max_results

\* C9: the returned list holds no url twice; of the collected results with
\* one url the first is the one returned; and the list is in domain order
\* and, within a domain, in the order of the answer, with no first occurrence
\* left out before a returned result.
C9_UniqueInOrder ==
  pc = "done" =>
    /\ \A i, j \in 1..Len(unique_results) :
         i < j => /\ unique_results[i].url # unique_results[j].url
                  /\ SrcBefore(unique_results[i], unique_results[j])
    /\ \A i \in 1..Len(unique_results) :
         /\ unique_results[i] \in Range(expected)
         /\ \A e \in Range(expected) :
              e.url = unique_results[i].url => ~SrcBefore(e, unique_results[i])
    /\ \A e \in Range(expected) :
         (/\ \A f \in Range(expected) : f.url = e.url => ~SrcBefore(f, e)
          /\ \E i \in 1..Len(unique_results) : SrcBefore(e, unique_results[i]))
         => e \in Range(unique_results)

\* two domains answered with the same url, one domain answered with one url
\* twice, and the list returned is shorter than max_results
C9_Witness ==
  /\ pc = "done"
  /\ \E a, b \in Range(expected) : a.url = b.url /\ a.src[1] < b.src[1]
  /\ \E a, b \in Range(expected) : a.url = b.url /\ a.src[1] = b.src[1] /\ a.src[2] < b.src[2]
  /\ Len(unique_results) >= 2
  /\ Len(unique_results) < max_results

\* C10: whichever queries fail, no error leaves search, every domain is
\* queried in allow-list order, the list collected is the one the domains
\* that did not fail contributed, the list returned is the one computed from
\* it, and it is empty when every query failed.
C10_PartialFailure ==
  /\ pc # "raised"
  /\ pc \in {"loop", "done"} =>
       /\ queried = [k \in 1..(dom - 1) |-> k]
       /\ all_results = expected
  /\ pc = "done" =>
       /\ Len(queried) = Len(TRUSTED_DOMAINS)
       /\ unique_results = Unique(expected, {}, <<>>, max_results)
       /\ failures = Len(TRUSTED_DOMAINS) => unique_results = <<>>

\* the first domain failed, the second was queried and contributed, and the
\* search went on to the third
C10_Witness ==
  /\ pc = "loop"
  /\ dom = 3
  /\ failures = 1
  /\ lastResp = "ok"
  /\ all_results # <<>>

\* every query failed and the empty list was returned
C10_AllFailed ==
  pc = "done" /\ failures = Len(TRUSTED_DOMAINS)

\* the results a domain contributed to the aggregate list
FromDomain(list, d) == {k \in 1..Len(list) : list[k].src[1] = d}

\* the results of domain d alone fill the returned list while a result
\* another domain contributed, with a url that is not returned, is left out
Starves(d) ==
  /\ unique_results # <<>>
  /\ Len(unique_results) >= max_results
  /\ \A k \in 1..Len(unique_results) : unique_results[k].src[1] = d
  /\ \E e \in Range(all_results) :
       /\ e.src[1] # d
       /\ \A k \in 1..Len(unique_results) : unique_results[k].url # e.url

\* the cap on what one domain contributes to the aggregate list
C11_CapHolds ==
  \A d \in 1..Len(TRUSTED_DOMAINS) :
    Cardinality(FromDomain(all_results, d)) <= (max_results \div Len(TRUSTED_DOMAINS)) + 1

\* C11 (as claimed): each domain contributes at most
\* floor(max_results / number of domains) + 1 results to the aggregate, and
\* for every max_results >= 1 no single domain's results alone fill the
\* returned list while results of another domain are left out.
C11_NoStarvation ==
  /\ C11_CapHolds
  /\ (pc = "done" /\ max_results >= 1) =>
       \A d \in 1..Len(TRUSTED_DOMAINS) : ~Starves(d)

\* C11 (amended): each domain contributes at most
\* floor(max_results / number of domains) + 1 results to the aggregate, and
\* for every max_results >= 2 no single domain's results alone fill the
\* returned list while results of another domain are left out.
C11_NoStarvationFromTwo ==
  /\ C11_CapHolds
  /\ (pc = "done" /\ max_results >= 2) =>
       \A d \in 1..Len(TRUSTED_DOMAINS) : ~Starves(d)

\* max_results is 2, the first domain answered with two results that pass
\* its filter and one was kept, and the returned list is full with results
\* of two domains
C11_Witness ==
  /\ pc = "done"
  /\ max_results = 2
  /\ Len(unique_results) = max_results
  /\ unique_results[1].src[1] # unique_results[2].src[1]
  /\ unique_results[2].title = "D"

\* C12 (as claimed): within one search call a politeness delay occurs
\* between every two consecutive per-domain queries, whether the earlier
\* query succeeded or failed.
C12_DelayBetweenQueries ==
  pc \in {"loop", "done"} => ~undelayed

\* a result is from a trusted domain: its domain is an allow-listed hostname
\* or a subdomain of one
IsSuffix(a, b) == Len(a) <= Len(b) /\ SubSeq(b, Len(b) - Len(a) + 1, Len(b)) = a

FromTrustedDomain(r) ==
  \E d \in 1..Len(TRUSTED_DOMAINS) :
    \/ r.domain = TRUSTED_DOMAINS[d]
    \/ IsSuffix(<<".">> \o TRUSTED_DOMAINS[d], r.domain)

\* C13 (as claimed): every SearchResult returned by search comes from a
\* trusted domain, for every result list the external search may return.
C13_OnlyTrustedDomains ==
  pc = "done" => \A k \in 1..Len(unique_results) : FromTrustedDomain(unique_results[k])

---------------------------------------------------------------------------
(* Claims about the status classifier, checked under SpecStatus            *)

IsFlagCall == flagCall.op = "flag_status"

\* the current year of a call as its caller states it: the argument
\* current_year, or the calendar year of the call when it is omitted
StatedYear ==
  IF flagCall.current_year.given THEN flagCall.current_year.val ELSE flagCall.at

\* C14: whenever achieved_year is given, flag_status returns EARLY if
\* achieved_year < target_year, ON-TIME if they are equal and LATE if
\* achieved_year > target_year, for every current_year and progress_pct.
C14_Retrospective ==
  (IsFlagCall /\ flagCall.achieved_year.given) =>
    LET a == flagCall.achieved_year.val
        t == flagCall.target_year IN
    /\ a < t => flagCall.flag = "EARLY"
    /\ a = t => flagCall.flag = "ON-TIME"
    /\ a > t => flagCall.flag = "LATE"

\* achieved in the target year, in a call whose target is past the given
\* current year and comes with progress far below what is expected
C14_Witness ==
  /\ IsFlagCall
  /\ flagCall.achieved_year = Some(flagCall.target_year)
  /\ flagCall.current_year.given
  /\ flagCall.current_year.val > flagCall.target_year
  /\ flagCall.progress_pct = Some(0)
  /\ flagCall.flag = "ON-TIME"

\* C15 (as claimed): with achieved_year and progress_pct absent, flag_status
\* returns LATE when target_year <= current_year, ON-TIME when
\* 1 <= target_year - current_year <= 2 and LATE-RISK when the difference
\* exceeds 2; with achieved_year absent and target_year <= current_year it
\* returns LATE also when progress_pct is given.
C15_Prospective ==
  (IsFlagCall /\ ~flagCall.achieved_year.given) =>
    LET left == flagCall.target_year - StatedYear IN
    /\ left <= 0 => flagCall.flag = "LATE"
    /\ ~flagCall.progress_pct.given =>
         /\ (1 <= left /\ left <= 2) => flagCall.flag = "ON-TIME"
         /\ left > 2 => flagCall.flag = "LATE-RISK"

\* the classification of C15 for calls whose current_year is omitted or
\* is not 0
C15_ForNonZeroYear ==
  (flagCall.current_year.given => flagCall.current_year.val # 0) => C15_Prospective

\* C16 (as claimed): with achieved_year absent, target_year > current_year
\* and progress_pct known, flag_status is ON-TIME whenever
\* |progress_pct - e| <= 10 (progress_pct = e + 10 included), EARLY when
\* progress_pct > e + 10 and LATE-RISK when progress_pct < e - 10, e being
\* the expected progress; and flag(2030, current_year=2024, progress_pct=90)
\* is EARLY.
C16_WithProgress ==
  /\ (IsFlagCall /\ ~flagCall.achieved_year.given /\ flagCall.progress_pct.given
      /\ flagCall.target_year > StatedYear) =>
       LET left == flagCall.target_year - StatedYear
           e == ExpectedProgress(TotalSpan(flagCall.target_year, StatedYear, left), left)
           p == flagCall.progress_pct.val * e.den
           ten == 10 * e.den IN
       /\ Abs(p - e.num) <= ten => flagCall.flag = "ON-TIME"
       /\ p > e.num + ten => flagCall.flag = "EARLY"
       /\ p < e.num - ten => flagCall.flag = "LATE-RISK"
  /\ (IsFlagCall /\ flagCall.target_year = 2030 /\ flagCall.current_year = Some(2024)
      /\ flagCall.progress_pct = Some(90) /\ ~flagCall.achieved_year.given) =>
       flagCall.flag = "EARLY"

\* the classification of C16 without its boundary progress_pct = e + 10, for
\* calls whose current_year is omitted or is not 0
C16_OffBoundary ==
  (IsFlagCall /\ ~flagCall.achieved_year.given /\ flagCall.progress_pct.given
   /\ flagCall.target_year > StatedYear
   /\ (flagCall.current_year.given => flagCall.current_year.val # 0)) =>
    LET left == flagCall.target_year - StatedYear
        e == ExpectedProgress(TotalSpan(flagCall.target_year, StatedYear, left), left)
        p == flagCall.progress_pct.val * e.den
        ten == 10 * e.den IN
    /\ (Abs(p - e.num) <= ten /\ p # e.num + ten) => flagCall.flag = "ON-TIME"
    /\ p >= e.num + ten => flagCall.flag = "EARLY"
    /\ p < e.num - ten => flagCall.flag = "LATE-RISK"

\* C17 (as claimed): flag_status returns exactly one flag for every
\* combination of present and absent arguments, and the flag is a function
\* of the arguments only: the same call returns the same flag whatever the
\* calendar year of the wall clock is.
C17_TotalAndPure ==
  IsFlagCall =>
    /\ flagCall.flag \in StatusFlags
    /\ \A y \in WallYears :
         flag_status(flagCall.target_year, flagCall.current_year, flagCall.progress_pct,
                     flagCall.achieved_year, y) = flagCall.flag

\* the part of C17 that is about totality
C17_Total ==
  IsFlagCall => flagCall.flag \in StatusFlags

---------------------------------------------------------------------------
(* Claims about the PredictionEngine, checked under SpecEngine             *)

\* |A n B| / |A u B| over the lower-cased, whitespace-split words of two
\* metric names; 0 when they have no word at all
Jaccard(metric1, metric2) ==
  LET A == Range(SplitWs(Lower(metric1)))
      B == Range(SplitWs(Lower(metric2))) IN
  IF A \cup B = {} THEN Frac(0, 1)
  ELSE Frac(Cardinality(A \cap B), Cardinality(A \cup B))

\* the actuals whose similarity with forecast i is strictly greater than 0.5
Candidates(forecasts, i, actuals) ==
  {k \in 1..Len(actuals) :
     FracGt(Jaccard(forecasts[i].metric, actuals[k].metric), Frac(1, 2))}

\* the first of the candidates with the highest similarity
BestCandidate(forecasts, i, actuals) ==
  CHOOSE k \in Candidates(forecasts, i, actuals) :
    \A j \in Candidates(forecasts, i, actuals) :
      LET sk == Jaccard(forecasts[i].metric, actuals[k].metric)
          sj == Jaccard(forecasts[i].metric, actuals[j].metric) IN
      FracGt(sk, sj) \/ (FracEq(sk, sj) /\ k <= j)

\* C18: for each forecast _match_forecasts_with_actuals selects the actual
\* with the highest token-set Jaccard similarity, the first one on ties, and
\* accepts it only if the similarity is strictly greater than 0.5;
\* 'GDP Growth Rate' matches 'GDP Growth' (2/3), does not match
\* 'Literacy Rate' (1/4), and a similarity of exactly 0.5 is not a match.
C18_MatchingRule ==
  /\ FracEq(_calculate_metric_similarity(<<"G", "D", "P", " ", "G", "r", "o", "w", "t", "h", " ", "R", "a", "t", "e">>,
                                         <<"G", "D", "P", " ", "G", "r", "o", "w", "t", "h">>), Frac(2, 3))
  /\ FracEq(_calculate_metric_similarity(<<"G", "D", "P", " ", "G", "r", "o", "w", "t", "h", " ", "R", "a", "t", "e">>,
                                         <<"L", "i", "t", "e", "r", "a", "c", "y", " ", "R", "a", "t", "e">>), Frac(1, 4))
  /\ engineOut.op = "_match_forecasts_with_actuals" =>
       LET F == engineIn.forecasts
           A == engineIn.actuals
           M == engineOut.val
           of(i) == {k \in 1..Len(M) : M[k].fidx = i} IN
       /\ \A k \in 1..Len(M) :
            /\ M[k].forecast = F[M[k].fidx]
            /\ M[k].actual = A[M[k].aidx]
       /\ \A i \in 1..Len(F) :
            IF Candidates(F, i, A) = {} THEN of(i) = {}
            ELSE /\ Cardinality(of(i)) = 1
                 /\ \A k \in of(i) : M[k].aidx = BestCandidate(F, i, A)

\* 'GDP Growth Rate' is matched with the second actual, 'growth rate' (2/3),
\* and 'GDP Growth' is not matched: 'GDP' is at exactly 0.5
C18_Witness ==
  /\ engineOut.op = "_match_forecasts_with_actuals"
  /\ Len(engineIn.forecasts) = 2
  /\ engineIn.forecasts[1].metric = <<"G", "D", "P", " ", "G", "r", "o", "w", "t", "h", " ", "R", "a", "t", "e">>
  /\ engineIn.forecasts[2].metric = <<"G", "D", "P", " ", "G", "r", "o", "w", "t", "h">>
  /\ Len(engineIn.actuals) = 2
  /\ engineIn.actuals[1].metric = <<"G", "D", "P">>
  /\ engineIn.actuals[2].metric = <<"g", "r", "o", "w", "t", "h", " ", "r", "a", "t", "e">>
  /\ Len(engineOut.val) = 1
  /\ engineOut.val[1].fidx = 1
  /\ engineOut.val[1].aidx = 2

\* two actuals are at 2/3 of 'GDP Growth Rate' and the first is selected
C18_TieWitness ==
  /\ engineOut.op = "_match_forecasts_with_actuals"
  /\ Len(engineIn.forecasts) = 1
  /\ engineIn.forecasts[1].metric = <<"G", "D", "P", " ", "G", "r", "o", "w", "t", "h", " ", "R", "a", "t", "e">>
  /\ Len(engineIn.actuals) = 2
  /\ engineIn.actuals[1].metric = <<"g", "r", "o", "w", "t", "h", " ", "r", "a", "t", "e">>
  /\ engineIn.actuals[2].metric = <<"G", "D", "P", " ", "G", "r", "o", "w", "t", "h">>
  /\ Len(engineOut.val) = 1
  /\ engineOut.val[1].aidx = 1

\* C19: for one sector compare_forecasts_vs_actuals produces at most one
\* ComparisonResult per ForecastEntry, in forecast order; a forecast with no
\* actual above the threshold produces no result; and total_comparisons is
\* the number of results.
C19_OnePerForecast ==
  (engineOut.op = "compare_forecasts_vs_actuals" /\ engineOut.val.present) =>
    LET F == engineIn.forecasts
        A == engineIn.actuals
        R == engineOut.val.forecasts
        M == engineOut.val.matched_pairs IN
    /\ Len(R) = Len(M)
    /\ engineOut.val.total_comparisons = Len(R)
    /\ \A j, k \in 1..Len(M) : j < k => M[j].fidx < M[k].fidx
    /\ \A k \in 1..Len(R) :
         /\ R[k].metric = F[M[k].fidx].metric
         /\ R[k].predicted_value = F[M[k].fidx].predicted_value
         /\ R[k].actual_value = A[M[k].aidx].actual_value
    /\ \A i \in 1..Len(F) :
         Candidates(F, i, A) = {} => \A k \in 1..Len(M) : M[k].fidx # i

\* of two forecasts the first has no actual above the threshold and the
\* second has two: the one result is the result of the second forecast
C19_Witness ==
  /\ engineOut.op = "compare_forecasts_vs_actuals"
  /\ Len(engineIn.forecasts) = 2
  /\ Candidates(engineIn.forecasts, 1, engineIn.actuals) = {}
  /\ Cardinality(Candidates(engineIn.forecasts, 2, engineIn.actuals)) = 2
  /\ engineOut.val.total_comparisons = 1
  /\ engineOut.val.matched_pairs[1].fidx = 2

C20_Cases ==
  engineOut.op = "_compare_single_forecast" =>
    LET p == engineIn.forecasts[1].predicted_value
        a == engineIn.actuals[1].actual_value
        r == engineOut.val
        is(pt, at, status, n, d) ==
          (p = pt /\ a = at) => (r.status = status /\ FracEq(r.accuracy_score, Frac(n, d))) IN
    /\ is(<<"1", "0", "0", " ", "G", "W">>, <<"8", "5", " ", "G", "W">>, "ON-TIME", 85, 100)
    /\ is(<<"1", "0", "0", " ", "G", "W">>, <<"1", "1", "6", " ", "G", "W">>, "EARLY", 84, 100)
    /\ is(<<"1", "0", "0", " ", "G", "W">>, <<"8", "4", " ", "G", "W">>, "LATE", 84, 100)
    /\ is(<<"1", "0", "0", " ", "G", "W">>, <<"3", "0", "0", " ", "G", "W">>, "EARLY", 0, 1)
    /\ is(<<"1", "0", "0", " ", "G", "W">>, <<"8", "6", " ", "k", "W">>, "EARLY", 0, 1)
    /\ is(<<"1", "0", "0", " ", "k", "W">>, <<"8", "6", " ", "k", "W">>, "ON-TIME", 86, 100)
    /\ is(<<"0">>, <<"0">>, "ON-TIME", 1, 1)
    /\ is(<<"0">>, <<"5", " ", "%">>, "EARLY", 0, 1)
    /\ is(<<"1", "0", "0", " ", "G", "W">>, <<>>, "UNKNOWN", 0, 1)
    /\ is(<<>>, <<"h", "i", "g", "h">>, "UNKNOWN", 0, 1)

\* C21 (as claimed): every ComparisonResult produced by
\* compare_forecasts_vs_actuals carries one status flag of EARLY, ON-TIME,
\* LATE and an accuracy_score in [0, 1], also for pairs where numeric
\* extraction fails or a value text is empty.
C21_FlagAndScore ==
  (engineOut.op = "compare_forecasts_vs_actuals" /\ engineOut.val.present) =>
    \A k \in 1..Len(engineOut.val.forecasts) :
      LET r == engineOut.val.forecasts[k] IN
      /\ r.status \in {"EARLY", "ON-TIME", "LATE"}
      /\ FracLeq(Frac(0, 1), r.accuracy_score)
      /\ FracLeq(r.accuracy_score, Frac(1, 1))

\* the part of C21 that is about the accuracy_score
C21_ScoreInUnitInterval ==
  (engineOut.op = "compare_forecasts_vs_actuals" /\ engineOut.val.present) =>
    \A k \in 1..Len(engineOut.val.forecasts) :
      /\ FracLeq(Frac(0, 1), engineOut.val.forecasts[k].accuracy_score)
      /\ FracLeq(engineOut.val.forecasts[k].accuracy_score, Frac(1, 1))


Extracted == parseOut.op = "extract_year_value_pairs"

ValueBeforeYearText ==
  <<"I", "n", "d", "i", "a", "'", "s", " ", "G", "D", "P", " ", "w", "a", "s", " ", "$", "5", " ", "t", "r", "i", "l", "l", "i", "o", "n", " ", "b", "y", " ", "2", "0", "2", "5">>

\* C22: extract_year_value_pairs applied to "India's GDP was $5 trillion by
\* 2025" yields the one pair (2025, 5000000): a value followed later by its
\* year is extracted and scaled to millions.
C22_ValueBeforeYear ==
  (Extracted /\ parseIn = ValueBeforeYearText) =>
    /\ Len(parseOut.pairs) = 1
    /\ parseOut.pairs[1].year = 2025
    /\ FracEq(parseOut.pairs[1].value, Frac(5000000, 1))

\* text holds four digits in a row that read as a year of 1900..2099
HasYear(text) ==
  \E i \in 1..Len(text) :
    /\ i + 3 <= Len(text)
    /\ \A j \in i..(i + 3) : IsDigit(text[j])
    /\ ParseInt(SubSeq(text, i, i + 3)) \in 1900..2099

\* text holds a digit followed, after blanks only, by a unit token
HasNumberBeforeUnit(text) ==
  \E i \in 1..Len(text) : \E j \in (i + 1)..Len(text) : \E k \in 1..Len(UnitTokens) :
    /\ IsDigit(text[i])
    /\ \A h \in (i + 1)..(j - 1) : text[h] = " "
    /\ j + Len(UnitTokens[k]) - 1 <= Len(text)
    /\ Lower(SubSeq(text, j, j + Len(UnitTokens[k]) - 1)) = Lower(UnitTokens[k])

\* C23 (as claimed): extract_year_value_pairs returns the empty sequence for
\* every text with no four-digit year of 1900..2099 and for every text in
\* which no number is followed by a unit token, a text ending in a bare
\* number after a year included.
C23_EmptyWithoutYearOrUnit ==
  (Extracted /\ (~HasYear(parseIn) \/ ~HasNumberBeforeUnit(parseIn))) =>
    parseOut.pairs = <<>>

\* the part of C23 that is about the year
C23_EmptyWithoutYear == (Extracted /\ ~HasYear(parseIn)) => parseOut.pairs = <<>>

\* the multipliers as C24 lists them: a unit it does not list counts as 1
ListedMultiplier(unit) ==
  CASE unit \in {<<"t", "r", "i", "l", "l", "i", "o", "n">>, <<"t", "r", "n">>} -> Frac(1000000, 1)
    [] unit \in {<<"b", "i", "l", "l", "i", "o", "n">>, <<"b", "n">>} -> Frac(1000, 1)
    [] unit \in {<<"m", "i", "l", "l", "i", "o", "n">>, <<"m", "n">>} -> Frac(1, 1)
    [] unit \in {<<"c", "r", "o", "r", "e">>, <<"c", "r">>} -> Frac(10, 1)
    [] unit = <<"l", "a", "k", "h">> -> Frac(1, 10)
    [] OTHER -> Frac(1, 1)

\* the same with the rupee token rs at 0.012
ListedOrCurrencyMultiplier(unit) ==
  IF unit = <<"r", "s">> THEN Frac(12, 1000) ELSE ListedMultiplier(unit)

\* the numeric text of a match can be parsed
Parsable(mt) == RemoveCommas(mt.value) # <<>>

\* the pairs are the parsable matches in text order, each with its year of
\* 1900..2099 and its number times the multiplier of its unit, and the
\* matches do not overlap
NormalisedBy(Multiplier(_)) ==
  LET good == SelectSeq(parseOut.matches, Parsable) IN
  /\ Len(parseOut.pairs) = Len(good)
  /\ \A k \in 1..Len(good) :
       LET pair == parseOut.pairs[k]
           number == FloatOf(RemoveCommas(good[k].value))
           by == Multiplier(Lower(good[k].unit)) IN
       /\ k <= Len(parseOut.pairs)
       /\ pair.year = ParseInt(good[k].year)
       /\ pair.year \in 1900..2099
       /\ FracEq(pair.value, Frac(number.num * by.num, number.den * by.den))
  /\ \A k \in 1..Len(parseOut.matches) :
       /\ parseOut.matches[k].start < parseOut.matches[k].stop
       /\ k > 1 => parseOut.matches[k - 1].stop <= parseOut.matches[k].start

\* C24 (as claimed): for every match the value is the number times the fixed
\* multiplier trillion/trn 1e6, billion/bn 1e3, million/mn 1, crore/cr 10,
\* lakh 0.1, bare or unknown 1, without regard to case; every year is in
\* 1900..2099; the pairs are in text order, one per non-overlapping match; a
\* match whose numeric text cannot be parsed is skipped and the others kept.
C24_UnitNormalisation == Extracted => NormalisedBy(ListedMultiplier)

\* C24 (amended): the same with the multiplier 0.012 for the token rs.
C24_WithCurrencyUnits == Extracted => NormalisedBy(ListedOrCurrencyMultiplier)

\* a text with two matches, the first of commas only and skipped, the second
\* in rs
C24_Witness ==
  /\ Extracted
  /\ Len(parseOut.matches) = 2
  /\ ~Parsable(parseOut.matches[1])
  /\ Len(parseOut.pairs) = 1
  /\ Lower(parseOut.matches[2].unit) = <<"r", "s">>


\* the analyses of single predictions in what the estimator returned
Analyses ==
  IF likeOut.op = "_analyze_single_prediction" THEN <<likeOut.val>>
  ELSE IF likeOut.op = "analyze_future_likelihood" THEN likeOut.val.predictions
  ELSE <<>>

\* C25: _analyze_single_prediction returns LIKELY EARLY iff the combined
\* score is above 0.15, LATE-RISK iff it is below -0.15 and ON-TIME otherwise;
\* the progress ratio is at most 1.0; the confidence of the analysis and the
\* confidence_score of the sector in analyze_future_likelihood are in [0, 1].
C25_LikelihoodEstimator ==
  /\ \A k \in 1..Len(Analyses) :
       LET a == Analyses[k] IN
       /\ a.likelihood = "LIKELY EARLY" <=> a.final_score > 150
       /\ a.likelihood = "LATE-RISK" <=> a.final_score < -150
       /\ a.likelihood = "ON-TIME" <=> a.final_score \in -150..150
       /\ a.progress_ratio.given =>
            /\ FracLeq(Frac(0, 1), a.progress_ratio.val)
            /\ FracLeq(a.progress_ratio.val, Frac(1, 1))
       /\ a.confidence \in 0..1000
  /\ likeOut.op = "analyze_future_likelihood" =>
       /\ FracLeq(Frac(0, 1), likeOut.val.confidence_score)
       /\ FracLeq(likeOut.val.confidence_score, Frac(1, 1))

\* a sector with an analysis that is LIKELY EARLY on a score above 0.3, its
\* progress above the target, and an analysis that is LATE-RISK
C25_Witness ==
  /\ likeOut.op = "analyze_future_likelihood"
  /\ \E k \in 1..Len(Analyses) :
       /\ Analyses[k].likelihood = "LIKELY EARLY"
       /\ Analyses[k].final_score > 300
       /\ Analyses[k].progress_ratio.given
       /\ FracEq(Analyses[k].progress_ratio.val, Frac(1, 1))
       /\ FracGt(_extract_numeric_value(Analyses[k].current_progress),
                 _extract_numeric_value(Analyses[k].target_value))
  /\ \E k \in 1..Len(Analyses) : Analyses[k].likelihood = "LATE-RISK"


\* the pairs extracted from the results of the money_flow_data call, in order
RECURSIVE FlowPairs(_)
FlowPairs(results) ==
  IF results = <<>> THEN <<>>
  ELSE LET res == SearchResult(Head(results)) IN
       extract_year_value_pairs(res.snippet \o <<" ">> \o res.title)
       \o FlowPairs(Tail(results))

\* the values extracted for a year
RECURSIVE ValuesFor(_, _)
ValuesFor(pairs, year) ==
  IF pairs = <<>> THEN <<>>
  ELSE (IF Head(pairs).year = year THEN <<Head(pairs).value>> ELSE <<>>)
       \o ValuesFor(Tail(pairs), year)

\* the statistical median: the middle value, or the midpoint of the two
\* middle values
StatMedian(values) ==
  LET s == Sorted(values)
      n == Len(values)
      a == s[n \div 2]
      b == s[(n \div 2) + 1] IN
  IF n % 2 = 1 THEN s[(n + 1) \div 2]
  ELSE Frac(a.num * b.den + b.num * a.den, 2 * a.den * b.den)

FlowYears ==
  {y \in ret.start_year..ret.end_year : ValuesFor(FlowPairs(ret.arg), y) # <<>>}

\* C26 (as claimed): money_flow_data returns, for each year of
\* [start_year, end_year] with at least one extracted value, the statistical
\* median of the values extracted for that year across the results (for an
\* even number of values the midpoint of the two middle ones) and no other
\* year, and registers the url of every result in the citation registry.
C26_MoneyFlow ==
  ret.op = "money_flow_data" =>
    /\ DOMAIN ret.aggregated = FlowYears
    /\ \A y \in FlowYears :
         FracEq(ret.aggregated[y], StatMedian(ValuesFor(FlowPairs(ret.arg), y)))
    /\ \A k \in 1..Len(ret.arg) : DictHas(citations, ret.arg[k])

\* the parts of C26 that are about the years, the citations and the median of
\* an odd number of values
C26_YearsCitationsOddMedian ==
  ret.op = "money_flow_data" =>
    /\ DOMAIN ret.aggregated = FlowYears
    /\ \A y \in FlowYears :
         LET values == ValuesFor(FlowPairs(ret.arg), y) IN
         Len(values) % 2 = 1 => FracEq(ret.aggregated[y], StatMedian(values))
    /\ \A k \in 1..Len(ret.arg) : DictHas(citations, ret.arg[k])


\* two urls of the shared registry have one tag
DuplicateTag ==
  \E i, j \in 1..Len(citations) :
    i # j /\ citations[i].url # citations[j].url /\ citations[i].tag = citations[j].tag

\* C27: the registry is not synchronized: adds of two new urls that run on
\* one registry without serialization can give both urls the same tag (the
\* state C27_Witness, reached by an interleaving between the membership test
\* or the length read and the insert); when every add runs under a
\* single-writer lock the tags are unique in every reachable state.
C27_UniqueUnderLock == serialized => ~DuplicateTag

\* without serialization: two urls with one tag
C27_Witness == ~serialized /\ DuplicateTag


\* the flag of the call is the one its progress_pct alone gives, the
\* expected progress of the call being 50
ByProgressAlone ==
  LET left == flagCall.target_year - StatedYear
      e == ExpectedProgress(TotalSpan(flagCall.target_year, StatedYear, left), left)
      p == flagCall.progress_pct.val IN
  /\ e.num = 50 * e.den
  /\ flagCall.flag = "EARLY" <=> p >= 60
  /\ flagCall.flag = "ON-TIME" <=> (40 <= p /\ p < 60)
  /\ flagCall.flag = "LATE-RISK" <=> p < 40

\* C29 (as claimed): in prospective mode with progress_pct known and
\* target_year > current_year, the expected progress flag_status computes is
\* 50 for every pair of target_year and current_year, and the flag depends
\* on progress_pct alone: EARLY iff progress_pct >= 60, ON-TIME iff
\* 40 <= progress_pct < 60, LATE-RISK iff progress_pct < 40.
C29_ProgressAlone ==
  (IsFlagCall /\ ~flagCall.achieved_year.given /\ flagCall.progress_pct.given
   /\ flagCall.target_year > StatedYear) => ByProgressAlone

\* the classification of C29 for calls whose current_year is omitted or is
\* not 0
C29_ForNonZeroYear ==
  (IsFlagCall /\ ~flagCall.achieved_year.given /\ flagCall.progress_pct.given
   /\ flagCall.target_year > StatedYear
   /\ (flagCall.current_year.given => flagCall.current_year.val # 0)) => ByProgressAlone


IsForecastCall == call.op \in {"fetch_historical_forecasts", "fetch_current_predictions"}

\* the entry of the call's key was in the cache and less than the TTL old
WithinTtl == \E e \in call.before : call.at - e.timestamp < CacheDuration

\* C30: the cache keys of fetch_historical_forecasts and
\* fetch_current_predictions leave out the sources: a call made within the
\* TTL of an entry with the same years and sectors returns the cached value
\* without invoking the fetch, whatever its sources are, so a returned value
\* can be one fetched for another sources list (the state C30_Witness).
C30_KeyOmitsSources ==
  (IsForecastCall /\ WithinTtl) =>
    /\ ~call.invoked
    /\ \A e \in call.before : call.ret = e.data
    /\ cache = call.cacheWas

\* a call answered from the cache with the value fetched for another sources
\* list
C30_Witness ==
  /\ IsForecastCall
  /\ WithinTtl
  /\ ~call.invoked
  /\ call.ret # FetchedFrom(call.sources)
  /\ \E src \in SourceLists : src # call.sources /\ call.ret = FetchedFrom(src)


IsPastCall == flagCall.op = "_evaluate_past_forecast"

\* the places of the text where four digits in a row read as a year of
\* 1900 .. the calendar year of the call
UsableYearPlaces ==
  {i \in 1..Len(flagCall.text) :
     /\ i + 3 <= Len(flagCall.text)
     /\ \A j \in i..(i + 3) : IsDigit(flagCall.text[j])
     /\ ParseInt(SubSeq(flagCall.text, i, i + 3)) \in 1900..flagCall.at}

\* C28 (as claimed): _evaluate_past_forecast returns LATE, for every
\* target_year, when the text holds no usable achieved year (no four-digit
\* year between 1900 and the current year); when it holds one, the first
\* such year of the text is the achieved_year and the status is the
\* retrospective flag for it.
C28_DefaultsToLate ==
  IsPastCall =>
    IF UsableYearPlaces = {} THEN flagCall.flag = "LATE"
    ELSE LET place == CHOOSE i \in UsableYearPlaces : \A j \in UsableYearPlaces : i <= j
             year == ParseInt(SubSeq(flagCall.text, place, place + 3)) IN
         /\ flagCall.achieved_year = Some(year)
         /\ year < flagCall.target_year => flagCall.flag = "EARLY"
         /\ year = flagCall.target_year => flagCall.flag = "ON-TIME"
         /\ year > flagCall.target_year => flagCall.flag = "LATE"

\* the part of C28 that holds: a text whose first year is usable gets the
\* retrospective flag for that year, and a text with no usable year whose
\* target year is not after the year of the call gets LATE
C28_FirstYearOrPastTarget ==
  IsPastCall =>
    LET first == CHOOSE i \in UsableYearPlaces : \A j \in UsableYearPlaces : i <= j
        year == ParseInt(SubSeq(flagCall.text, first, first + 3)) IN
    /\ (UsableYearPlaces # {} /\ first = FirstYearPlace(flagCall.text)) =>
         /\ flagCall.achieved_year = Some(year)
         /\ year < flagCall.target_year => flagCall.flag = "EARLY"
         /\ year = flagCall.target_year => flagCall.flag = "ON-TIME"
         /\ year > flagCall.target_year => flagCall.flag = "LATE"
    /\ (UsableYearPlaces = {} /\ flagCall.target_year <= flagCall.at) =>
         flagCall.flag = "LATE"

=============================================================================
